---- MODULE Spec2Model ----
(***************************************************************************)
(* NalogApi (src/src/NalogApi.ts): the session / token lifecycle of the    *)
(* client and its authenticated request pipeline.                          *)
(*                                                                         *)
(* One client instance.  JavaScript runs the code between two awaits       *)
(* atomically, so every action below is one such run: the synchronous      *)
(* prefix of a public method up to its first await, or the continuation    *)
(* that runs once an awaited promise settles.  Time is counted in minutes. *)
(***************************************************************************)
EXTENDS Integers, Sequences, FiniteSets, TLC

\* ------------------------------------------------------------------ bounds
MaxNow == 1          \* the clock runs 0..MaxNow
MaxTasks == 2        \* slots for public calls

\* ------------------------------------------------------- program constants
RefreshWindow == 5   \* 5 * 60 * 1000 ms, in minutes

\* ------------------------------------------------------------------ values
Null == "null"       \* JS null / undefined
Empty == ""          \* JS empty string

\* JS truthiness of a string | null value
Truthy(s) == s # Null /\ s # Empty

\* a Date | null is a set of at most one instant
NoDate == {}
DateOf(t) == {t}

\* v || d
OrElse(v, d) == IF Truthy(v) THEN v ELSE d

AccessTokens == {"T1", "T2"}
RefreshOf(tok) == IF tok = "T1" THEN "R1" ELSE "R2"
ExpireOffsets == {0, RefreshWindow, RefreshWindow + 1}
ProfileInns == {Null, "I2"}

Tasks == 1..MaxTasks

\* ------------------------------------------------------------------- state
VARIABLES
    authState,        \* accessToken, refreshToken, tokenExpireIn, inn
    authParams,       \* inn, password, phone
    deviceId,         \* deviceInfo.sourceDeviceId
    autoRefreshToken,
    saveToken,
    file,             \* the content of saveTokenPath
    now,              \* the wall clock
    task              \* the public calls: one record per slot

vars == <<authState, authParams, deviceId, autoRefreshToken, saveToken, file, now, task>>

\* the authState field initialiser
EmptyAuthState ==
    [accessToken |-> Null, refreshToken |-> Null, tokenExpireIn |-> NoDate, inn |-> Null]

AbsentFile ==
    [kind |-> "absent", accessToken |-> Empty, refreshToken |-> Empty,
     tokenExpireIn |-> NoDate, inn |-> Null, deviceId |-> Empty]

\* a file readFileSync throws on, a file whose content JSON.parse throws on
UnreadableFile == [AbsentFile EXCEPT !.kind = "unreadable"]
MalformedFile == [AbsentFile EXCEPT !.kind = "malformed"]

SavedRecord(acc, ref, exp, inn, dev) ==
    [kind |-> "record", accessToken |-> acc, refreshToken |-> ref,
     tokenExpireIn |-> exp, inn |-> inn, deviceId |-> dev]

\* ------------------------------------------------------- Credential Store
\* (mutant) the access token of the record is loaded whatever its expiry
loadTokensFromFileKeepsExpired(st, dev, f, t) ==
    IF f.kind # "record" THEN <<st, dev>>
    ELSE IF ~Truthy(f.refreshToken) THEN <<st, dev>>
    ELSE <<[st EXCEPT !.refreshToken = f.refreshToken, !.inn = f.inn,
                      !.tokenExpireIn = f.tokenExpireIn,
                      !.accessToken = f.accessToken],
           IF Truthy(f.deviceId) THEN f.deviceId ELSE dev>>

\* (mutant) a record whose access token has expired is not loaded at all
loadTokensFromFileDropsExpired(st, dev, f, t) ==
    IF f.kind # "record" THEN <<st, dev>>
    ELSE IF ~Truthy(f.refreshToken) THEN <<st, dev>>
    ELSE IF ~(\E e \in f.tokenExpireIn : e > t) THEN <<st, dev>>
    ELSE <<[st EXCEPT !.refreshToken = f.refreshToken, !.inn = f.inn,
                      !.tokenExpireIn = f.tokenExpireIn,
                      !.accessToken = f.accessToken],
           IF Truthy(f.deviceId) THEN f.deviceId ELSE dev>>

\* (mutant) the deviceId of the record is not restored
loadTokensFromFileKeepsDevice(st, dev, f, t) ==
    IF f.kind # "record" THEN <<st, dev>>
    ELSE IF ~Truthy(f.refreshToken) THEN <<st, dev>>
    ELSE LET isAccessTokenValid == \E e \in f.tokenExpireIn : e > t
             st1 == [st EXCEPT !.refreshToken = f.refreshToken,
                               !.inn = f.inn,
                               !.tokenExpireIn = f.tokenExpireIn]
             st2 == IF isAccessTokenValid
                    THEN [st1 EXCEPT !.accessToken = f.accessToken] ELSE st1
         IN <<st2, dev>>

\* (mutant) a record is loaded whether or not it has a refresh token
loadTokensFromFileUnchecked(st, dev, f, t) ==
    IF f.kind # "record" THEN <<st, dev>>
    ELSE LET isAccessTokenValid == \E e \in f.tokenExpireIn : e > t
             st1 == [st EXCEPT !.refreshToken = f.refreshToken,
                               !.inn = f.inn,
                               !.tokenExpireIn = f.tokenExpireIn]
             st2 == IF isAccessTokenValid
                    THEN [st1 EXCEPT !.accessToken = f.accessToken] ELSE st1
         IN <<st2, IF Truthy(f.deviceId) THEN f.deviceId ELSE dev>>

\* (mutant) the expiry is taken from the record before refreshToken is checked
loadTokensFromFileExpiryFirst(st, dev, f, t) ==
    IF f.kind # "record" THEN <<st, dev>>
    ELSE IF ~Truthy(f.refreshToken)
    THEN <<[st EXCEPT !.tokenExpireIn = f.tokenExpireIn], dev>>
    ELSE LET isAccessTokenValid == \E e \in f.tokenExpireIn : e > t
             st1 == [st EXCEPT !.refreshToken = f.refreshToken,
                               !.inn = f.inn,
                               !.tokenExpireIn = f.tokenExpireIn]
             st2 == IF isAccessTokenValid
                    THEN [st1 EXCEPT !.accessToken = f.accessToken] ELSE st1
         IN <<st2, IF Truthy(f.deviceId) THEN f.deviceId ELSE dev>>

\* loadTokensFromFile: the pair <<authState, deviceId>> after the load
loadTokensFromFile(st, dev, f, t) ==
    IF f.kind # "record" THEN <<st, dev>>
    ELSE IF ~Truthy(f.refreshToken) THEN <<st, dev>>
    ELSE LET isAccessTokenValid == \E e \in f.tokenExpireIn : e > t
             st1 == [st EXCEPT !.refreshToken = f.refreshToken,
                               !.inn = f.inn,
                               !.tokenExpireIn = f.tokenExpireIn]
             st2 == IF isAccessTokenValid
                    THEN [st1 EXCEPT !.accessToken = f.accessToken] ELSE st1
         IN <<st2, IF Truthy(f.deviceId) THEN f.deviceId ELSE dev>>

\* (mutant) the record is written without the subject identifier
SavedTokensWithoutInn(st, dev) ==
    SavedRecord(OrElse(st.accessToken, Empty), OrElse(st.refreshToken, Empty),
                st.tokenExpireIn, Null, dev)

\* the record saveTokensToFile serialises (savedAt is never read back)
SavedTokens(st, dev) ==
    SavedRecord(OrElse(st.accessToken, Empty), OrElse(st.refreshToken, Empty),
                st.tokenExpireIn, st.inn, dev)

\* saveTokensToFile: the file afterwards; wok is whether writeFileSync succeeds
saveTokensToFile(st, dev, f, on, wok) ==
    IF ~on THEN f
    ELSE IF wok THEN SavedTokens(st, dev) ELSE f

\* saveTokensToFile reaches its catch block and calls console.error
saveFailed(on, wok) == on /\ ~wok

\* ------------------------------------------------------------ construction
\* generateDeviceId draws a random UUID: every construction generates an id
\* that no earlier client had, so one unlike the id in the file it finds
GeneratedDeviceIds == {"Dgen", "Dgen2"}
generateDeviceId(f) == IF f.deviceId = "Dgen" THEN "Dgen2" ELSE "Dgen"

\* a phone number is a sequence of characters; <<>> is an absent or empty one
Digits == {"0", "1", "2", "3", "4", "5", "6", "7", "8", "9"}
IsDigit(c) == c \in Digits

\* normalizePhone
normalizePhone(phone) ==
    LET digits == SelectSeq(phone, IsDigit)
    IN IF Len(digits) = 11 /\ digits[1] = "8" THEN <<"7">> \o Tail(digits)
       ELSE IF Len(digits) = 11 /\ digits[1] = "7" THEN digits
       ELSE IF Len(digits) = 10 THEN <<"7">> \o digits
       ELSE digits

PhoneOptions ==
    { <<>>,
      <<"+">>,
      <<"8", "9", "9", "9", "1", "2", "3", "4", "5", "6", "7">> }

Options ==
    [inn : {Null, "I1"}, password : {Null, "pw"}, phone : PhoneOptions,
     accessToken : {Null, "T0"}, refreshToken : {Null, "R0"},
     deviceId : {Null, "D1"}, autoRefreshToken : BOOLEAN, saveToken : BOOLEAN]

\* `new NalogApi()`: no options given
NoOptions ==
    [inn |-> Null, password |-> Null, phone |-> <<>>, accessToken |-> Null,
     refreshToken |-> Null, deviceId |-> Null, autoRefreshToken |-> TRUE,
     saveToken |-> FALSE]

\* (mutant) the constructor loads the record whether or not saveToken is set
ConstructAlwaysLoads(o, f, t) ==
    LET dev0 == OrElse(o.deviceId, generateDeviceId(f))
        ld == loadTokensFromFile(EmptyAuthState, dev0, f, t)
        s1 == ld[1]
        s2 == IF Truthy(o.inn) /\ ~Truthy(s1.inn) THEN [s1 EXCEPT !.inn = o.inn] ELSE s1
        s3 == IF Truthy(o.accessToken) /\ ~Truthy(s2.accessToken)
              THEN [s2 EXCEPT !.accessToken = o.accessToken] ELSE s2
        s4 == IF Truthy(o.refreshToken) /\ ~Truthy(s3.refreshToken)
              THEN [s3 EXCEPT !.refreshToken = o.refreshToken] ELSE s3
    IN [authState |-> s4,
        authParams |-> [inn |-> IF Truthy(o.inn) THEN o.inn ELSE Null,
                        password |-> IF Truthy(o.password) THEN o.password ELSE Null,
                        phone |-> IF o.phone # <<>> THEN normalizePhone(o.phone) ELSE <<>>],
        deviceId |-> IF Truthy(o.deviceId) THEN o.deviceId ELSE ld[2]]

\* (mutant) the accessToken and refreshToken options replace what was loaded
ConstructPrefersOptions(o, f, t) ==
    LET dev0 == OrElse(o.deviceId, generateDeviceId(f))
        ld == IF o.saveToken THEN loadTokensFromFile(EmptyAuthState, dev0, f, t)
              ELSE <<EmptyAuthState, dev0>>
        s1 == ld[1]
        s2 == IF Truthy(o.inn) /\ ~Truthy(s1.inn) THEN [s1 EXCEPT !.inn = o.inn] ELSE s1
        s3 == IF Truthy(o.accessToken)
              THEN [s2 EXCEPT !.accessToken = o.accessToken] ELSE s2
        s4 == IF Truthy(o.refreshToken)
              THEN [s3 EXCEPT !.refreshToken = o.refreshToken] ELSE s3
    IN [authState |-> s4,
        authParams |-> [inn |-> IF Truthy(o.inn) THEN o.inn ELSE Null,
                        password |-> IF Truthy(o.password) THEN o.password ELSE Null,
                        phone |-> IF o.phone # <<>> THEN normalizePhone(o.phone) ELSE <<>>],
        deviceId |-> IF Truthy(o.deviceId) THEN o.deviceId ELSE ld[2]]

\* the constructor: authState, authParams and deviceId of the new instance
Construct(o, f, t) ==
    LET dev0 == OrElse(o.deviceId, generateDeviceId(f))
        ld == IF o.saveToken THEN loadTokensFromFile(EmptyAuthState, dev0, f, t)
              ELSE <<EmptyAuthState, dev0>>
        s1 == ld[1]
        s2 == IF Truthy(o.inn) /\ ~Truthy(s1.inn) THEN [s1 EXCEPT !.inn = o.inn] ELSE s1
        s3 == IF Truthy(o.accessToken) /\ ~Truthy(s2.accessToken)
              THEN [s2 EXCEPT !.accessToken = o.accessToken] ELSE s2
        s4 == IF Truthy(o.refreshToken) /\ ~Truthy(s3.refreshToken)
              THEN [s3 EXCEPT !.refreshToken = o.refreshToken] ELSE s3
    IN [authState |-> s4,
        authParams |-> [inn |-> IF Truthy(o.inn) THEN o.inn ELSE Null,
                        password |-> IF Truthy(o.password) THEN o.password ELSE Null,
                        phone |-> IF o.phone # <<>> THEN normalizePhone(o.phone) ELSE <<>>],
        deviceId |-> IF Truthy(o.deviceId) THEN o.deviceId ELSE ld[2]]


\* -------------------------------------------------- Token Lifecycle Manager
\* (mutant) a token without a known expiry is refreshed
ensureValidTokenUnknownIsStale(st, t) ==
    IF ~Truthy(st.accessToken) THEN "auth"
    ELSE IF st.tokenExpireIn = NoDate THEN "refresh"
    ELSE IF \E e \in st.tokenExpireIn : t >= e - RefreshWindow THEN "refresh"
    ELSE "none"

\* (mutant) the refresh starts only once the token has expired
ensureValidTokenWhenExpired(st, t) ==
    IF ~Truthy(st.accessToken) THEN "auth"
    ELSE IF \E e \in st.tokenExpireIn : t >= e THEN "refresh"
    ELSE "none"

\* (mutant) the refresh starts only once less than the window is left
ensureValidTokenLate(st, t) ==
    IF ~Truthy(st.accessToken) THEN "auth"
    ELSE IF \E e \in st.tokenExpireIn : t > e - RefreshWindow THEN "refresh"
    ELSE "none"

\* (mutant) a known expiry always leads to a refresh
ensureValidTokenEager(st, t) ==
    IF ~Truthy(st.accessToken) THEN "auth"
    ELSE IF st.tokenExpireIn # NoDate THEN "refresh"
    ELSE "none"

\* ensureValidToken: what it invokes, "auth", "refresh" or "none"
ensureValidToken(st, t) ==
    IF ~Truthy(st.accessToken) THEN "auth"
    ELSE IF \E e \in st.tokenExpireIn : t >= e - RefreshWindow THEN "refresh"
    ELSE "none"

\* (mutant) the configured password login is tried before the held refresh token
authPasswordFirst(st, params) ==
    IF Truthy(params.inn) /\ Truthy(params.password) THEN "lkfl"
    ELSE IF Truthy(st.refreshToken) THEN "refresh"
    ELSE IF params.phone # <<>> THEN "guidance"
    ELSE "nocreds"

\* (mutant) a configured inn is enough for the password login
authInnOnly(st, params) ==
    IF Truthy(st.refreshToken) THEN "refresh"
    ELSE IF Truthy(params.inn) THEN "lkfl"
    ELSE IF params.phone # <<>> THEN "guidance"
    ELSE "nocreds"

\* auth: the branch it takes
auth(st, params) ==
    IF Truthy(st.refreshToken) THEN "refresh"
    ELSE IF Truthy(params.inn) /\ Truthy(params.password) THEN "lkfl"
    ELSE IF params.phone # <<>> THEN "guidance"
    ELSE "nocreds"

\* (mutant) the refresh is sent whether or not a refresh token is held
refreshAccessTokenUnguarded(st) == "refresh"

\* refreshAccessToken up to its request: the exchange, or the local error
refreshAccessToken(st) ==
    IF ~Truthy(st.refreshToken) THEN "norefresh" ELSE "refresh"

\* the endpoint of each credential exchange
EndpointOf(x) ==
    CASE x = "refresh" -> "auth/token"
      [] x = "lkfl" -> "auth/lkfl"
      [] x = "verify" -> "auth/challenge/sms/verify"

\* (mutant) the refresh leaves the old access token in place
InstallKeepsAccessToken(st, x, r, argInn, t) ==
    LET s1 == [st EXCEPT !.accessToken = IF x = "refresh" THEN @ ELSE r.token,
                         !.refreshToken = r.refreshToken,
                         !.tokenExpireIn = DateOf(t + r.expireIn)]
    IN CASE x = "lkfl" -> [s1 EXCEPT !.inn = argInn]
         [] x = "verify" -> IF Truthy(r.profileInn) THEN [s1 EXCEPT !.inn = r.profileInn] ELSE s1
         [] x = "refresh" -> s1

\* (mutant) the refresh leaves the old refresh token in place
InstallKeepsRefreshToken(st, x, r, argInn, t) ==
    LET s1 == [st EXCEPT !.accessToken = r.token,
                         !.refreshToken = IF x = "refresh" THEN @ ELSE r.refreshToken,
                         !.tokenExpireIn = DateOf(t + r.expireIn)]
    IN CASE x = "lkfl" -> [s1 EXCEPT !.inn = argInn]
         [] x = "verify" -> IF Truthy(r.profileInn) THEN [s1 EXCEPT !.inn = r.profileInn] ELSE s1
         [] x = "refresh" -> s1

\* (mutant) the expiry of the response is not installed
InstallKeepsExpiry(st, x, r, argInn, t) ==
    LET s1 == [st EXCEPT !.accessToken = r.token,
                         !.refreshToken = r.refreshToken]
    IN CASE x = "lkfl" -> [s1 EXCEPT !.inn = argInn]
         [] x = "verify" -> IF Truthy(r.profileInn) THEN [s1 EXCEPT !.inn = r.profileInn] ELSE s1
         [] x = "refresh" -> s1

\* (mutant) authByPhone does not read the profile of the response
InstallIgnoresProfile(st, x, r, argInn, t) ==
    LET s1 == [st EXCEPT !.accessToken = r.token,
                         !.refreshToken = r.refreshToken,
                         !.tokenExpireIn = DateOf(t + r.expireIn)]
    IN CASE x = "lkfl" -> [s1 EXCEPT !.inn = argInn]
         [] x = "verify" -> s1
         [] x = "refresh" -> s1

\* (mutant) the later of the held and the returned expiry is kept
InstallKeepsLaterExpiry(st, x, r, argInn, t) ==
    LET s1 == [st EXCEPT !.accessToken = r.token,
                         !.refreshToken = r.refreshToken,
                         !.tokenExpireIn =
                            IF \E e \in st.tokenExpireIn : e > t + r.expireIn
                            THEN st.tokenExpireIn ELSE DateOf(t + r.expireIn)]
    IN CASE x = "lkfl" -> [s1 EXCEPT !.inn = argInn]
         [] x = "verify" -> IF Truthy(r.profileInn) THEN [s1 EXCEPT !.inn = r.profileInn] ELSE s1
         [] x = "refresh" -> s1

\* (mutant) a refresh that settles when the held token is no longer stale is
\* dropped
InstallSkipsWhenFresh(st, x, r, argInn, t) ==
    LET s1 == [st EXCEPT !.accessToken = r.token,
                         !.refreshToken = r.refreshToken,
                         !.tokenExpireIn = DateOf(t + r.expireIn)]
    IN CASE x = "lkfl" -> [s1 EXCEPT !.inn = argInn]
         [] x = "verify" -> IF Truthy(r.profileInn) THEN [s1 EXCEPT !.inn = r.profileInn] ELSE s1
         [] x = "refresh" -> IF ensureValidToken(st, t) = "none" THEN st ELSE s1

\* the assignments authByInn, authByPhone and refreshAccessToken make on success
Install(st, x, r, argInn, t) ==
    LET s1 == [st EXCEPT !.accessToken = r.token,
                         !.refreshToken = r.refreshToken,
                         !.tokenExpireIn = DateOf(t + r.expireIn)]
    IN CASE x = "lkfl" -> [s1 EXCEPT !.inn = argInn]
         [] x = "verify" -> IF Truthy(r.profileInn) THEN [s1 EXCEPT !.inn = r.profileInn] ELSE s1
         [] x = "refresh" -> s1

\* ---------------------------------------------------------- public methods
\* the methods that go through request() with requireAuth: "call" is call and
\* cancelIncome, "addIncome" is addIncome and addMultipleIncome, which run the
\* same code from request() on
PipelineOps == {"call", "getUserInfo", "addIncome", "getReceiptJson"}
ExchangeOps == {"auth", "authByInn", "authByPhone", "refreshAccessToken"}

PrimaryEndpoint(op) ==
    CASE op = "call" -> "call"
      [] op = "getUserInfo" -> "user"
      [] op = "addIncome" -> "income"
      [] op = "getReceiptJson" -> "receipt"

\* the errors the client constructs itself are NalogApiError; a rejected fetch
\* and a property read on a null body are not
LocalErrors == {"guidance", "nocreds", "norefresh", "innNotSet", "innNotDefined"}
IsNalogApiError(err) == err \in LocalErrors \cup {"http"}

\* the body of a response, as text: a JSON object with an optional message and
\* an optional code (Null: the field is absent), a text that is no JSON, or
\* nothing
NoBody == [form |-> "empty", message |-> Null, code |-> Null, text |-> Empty]
JsonBody(m, c) == [form |-> "json", message |-> m, code |-> c, text |-> Null]
TextBody(x) == [form |-> "text", message |-> Null, code |-> Null, text |-> x]

\* (mutant) an empty text is kept as the data
DecodeKeepsEmptyText(body) ==
    CASE body.form = "empty" ->
            [type |-> "string", message |-> Null, code |-> Null, value |-> Empty]
      [] body.form = "json" ->
            [type |-> "object", message |-> body.message, code |-> body.code,
             value |-> Null]
      [] body.form = "text" ->
            [type |-> "string", message |-> Null, code |-> Null, value |-> body.text]

\* request(): `data = text ? JSON.parse(text) : null`, and the text itself
\* when JSON.parse throws
Decode(body) ==
    CASE body.form = "empty" ->
            [type |-> "null", message |-> Null, code |-> Null, value |-> Null]
      [] body.form = "json" ->
            [type |-> "object", message |-> body.message, code |-> body.code,
             value |-> Null]
      [] body.form = "text" ->
            [type |-> "string", message |-> Null, code |-> Null, value |-> body.text]

\* (mutant) the error is built without the code of the body
NalogApiErrorOfDropsCode(status, data) ==
    [message |-> IF data.type = "object" /\ Truthy(data.message)
                 THEN <<data.message>> ELSE <<"HTTP Error: ", status>>,
     code |-> Null,
     response |-> data]

\* request(): new NalogApiError(errorData?.message || `HTTP Error: ${status}`,
\* errorData?.code, data).  A message is a sequence of string parts.
NalogApiErrorOf(status, data) ==
    [message |-> IF data.type = "object" /\ Truthy(data.message)
                 THEN <<data.message>> ELSE <<"HTTP Error: ", status>>,
     code |-> IF data.type = "object" THEN data.code ELSE Null,
     response |-> data]

NoError == [message |-> <<>>, code |-> Null, response |-> Decode(NoBody)]

\* the TokenResponse a call's credential exchange returned, none so far
NoReply == [token |-> Null, refreshToken |-> Null, tokenExpireIn |-> NoDate, profileInn |-> Null]

\* a slot: the method called (op), where it stands (pc), what ensureValidToken
\* invoked (ensure), the credential exchange it ran (exch), the endpoints it
\* fetched in order (log), the Authorization bearer of its primary call, and
\* how it settled (result, err, errFrom).  For the record: the access token
\* held when the method was called (held), and, for a request() that runs
\* ensureValidToken right after another such call has settled, whether that
\* call's ensureValidToken made an exchange, or "new" right after the
\* constructor (after).  A constructor call
\* (op "new") keeps the options it was given (opts); requestSmsCode keeps the
\* challengeToken of the body it received (challenge) and the string it
\* returned (value); diag is what the call wrote to console.error;
\* sentRefresh is the refreshToken in the body of its refresh exchange; store
\* is what clearSavedTokens met: nothing at saveTokenPath ("missing"), a file
\* it removed ("removed"), an unlinkSync that threw ("unlinkFailed"); args are
\* the arguments of a setTokens or setInn call; status and body are the
\* response its primary call received, error is the NalogApiError request()
\* made of a non-success one and resolved the type of the data request()
\* returned for a success; device is the sourceDeviceId in the body of its
\* credential exchange.
IdleTask ==
    [op |-> "none", pc |-> "idle", ensure |-> "n/a", exch |-> "none", argInn |-> Null,
     log |-> <<>>, reply |-> NoReply, bearer |-> Null, held |-> Null, after |-> "n/a",
     result |-> "none", err |-> "none", errFrom |-> "none",
     opts |-> NoOptions, challenge |-> Null, value |-> Null, diag |-> "none",
     sentRefresh |-> Null, store |-> "n/a", args |-> <<>>,
     status |-> "none", body |-> NoBody, error |-> NoError, resolved |-> "n/a",
     device |-> Null]

InFlight(t) == task[t].pc \in {"awaitExchange", "resume", "awaitPrimary", "awaitSms"}

Failed(tk, err, from) ==
    [tk EXCEPT !.pc = "done", !.result = "error", !.err = err, !.errFrom = from]

\* (mutant) request() checks the token again after the maintenance exchange
SendPrimaryRecheck(tk, st) ==
    IF autoRefreshToken /\ ensureValidToken(st, now) = "refresh" /\ Truthy(st.refreshToken)
    THEN [tk EXCEPT !.pc = "awaitExchange", !.exch = "refresh",
                    !.log = Append(@, "auth/token")]
    ELSE [tk EXCEPT !.pc = "awaitPrimary",
                    !.bearer = IF Truthy(st.accessToken) THEN st.accessToken ELSE Null,
                    !.log = Append(@, PrimaryEndpoint(tk.op))]

\* request(..., requireAuth = true) from the header construction to the fetch
SendPrimary(tk, st) ==
    [tk EXCEPT !.pc = "awaitPrimary",
               !.bearer = IF Truthy(st.accessToken) THEN st.accessToken ELSE Null,
               !.log = Append(@, PrimaryEndpoint(tk.op))]

\* (mutant) a refresh exchange sends a device id of its own
SendExchangeNewDevice(tk, m, st, params, argInn) ==
    LET x == IF m = "auth" THEN auth(st, params) ELSE m
        x2 == IF x = "refresh" THEN refreshAccessToken(st) ELSE x
    IN IF x2 \in {"guidance", "nocreds", "norefresh"} THEN Failed(tk, x2, "local")
       ELSE [tk EXCEPT !.pc = "awaitExchange", !.exch = x2,
                       !.argInn = IF m = "auth" THEN params.inn ELSE argInn,
                       !.sentRefresh = IF x2 = "refresh" THEN st.refreshToken ELSE @,
                       !.device = IF x2 = "refresh" THEN generateDeviceId(file)
                                  ELSE deviceId,
                       !.log = Append(@, EndpointOf(x2))]

\* a credential exchange method up to its fetch; m is the method entered:
\* "auth", "refresh", "lkfl" or "verify".  The body carries this.deviceInfo.
SendExchange(tk, m, st, params, argInn) ==
    LET x == IF m = "auth" THEN auth(st, params) ELSE m
        x2 == IF x = "refresh" THEN refreshAccessToken(st) ELSE x
    IN IF x2 \in {"guidance", "nocreds", "norefresh"} THEN Failed(tk, x2, "local")
       ELSE [tk EXCEPT !.pc = "awaitExchange", !.exch = x2,
                       !.argInn = IF m = "auth" THEN params.inn ELSE argInn,
                       !.sentRefresh = IF x2 = "refresh" THEN st.refreshToken ELSE @,
                       !.device = deviceId,
                       !.log = Append(@, EndpointOf(x2))]

\* (mutant) with auto-refresh off a client without a token still logs in
BeginLogsInWhenOff(op, argInn, st, params, autoRef, t, prev) ==
    LET tk == [IdleTask EXCEPT !.op = op, !.result = "pending",
                               !.held = st.accessToken,
                               !.after = IF op \in PipelineOps /\ autoRef /\ prev.pc = "done"
                                         THEN CASE prev.op = "new" -> "new"
                                                [] prev.ensure = "none" -> "none"
                                                [] prev.ensure \in {"auth", "refresh"} -> "exchange"
                                                [] OTHER -> "n/a"
                                         ELSE "n/a"]
    IN CASE op = "auth" -> SendExchange(tk, "auth", st, params, Null)
         [] op = "authByInn" -> SendExchange(tk, "lkfl", st, params, argInn)
         [] op = "authByPhone" -> SendExchange(tk, "verify", st, params, Null)
         [] op = "refreshAccessToken" -> SendExchange(tk, "refresh", st, params, Null)
         [] op = "requestSmsCode" ->
              [tk EXCEPT !.pc = "awaitSms", !.log = Append(@, "auth/challenge/sms/start")]
         [] op \in PipelineOps ->
              IF op = "getReceiptJson" /\ ~Truthy(OrElse(argInn, st.inn))
              THEN Failed(tk, "innNotSet", "local")
              ELSE IF ~autoRef /\ Truthy(st.accessToken) THEN SendPrimary([tk EXCEPT !.ensure = "off"], st)
              ELSE LET e == ensureValidToken(st, t)
                       tk1 == [tk EXCEPT !.ensure = e]
                   IN IF e = "none" THEN [tk1 EXCEPT !.pc = "resume"]
                      ELSE SendExchange(tk1, e, st, params, Null)

\* (mutant) addIncome looks for the inn before it sends the request
BeginChecksInnFirst(op, argInn, st, params, autoRef, t, prev) ==
    LET tk == [IdleTask EXCEPT !.op = op, !.result = "pending",
                               !.held = st.accessToken,
                               !.after = IF op \in PipelineOps /\ autoRef /\ prev.pc = "done"
                                         THEN CASE prev.op = "new" -> "new"
                                                [] prev.ensure = "none" -> "none"
                                                [] prev.ensure \in {"auth", "refresh"} -> "exchange"
                                                [] OTHER -> "n/a"
                                         ELSE "n/a"]
    IN CASE op = "auth" -> SendExchange(tk, "auth", st, params, Null)
         [] op = "authByInn" -> SendExchange(tk, "lkfl", st, params, argInn)
         [] op = "authByPhone" -> SendExchange(tk, "verify", st, params, Null)
         [] op = "refreshAccessToken" -> SendExchange(tk, "refresh", st, params, Null)
         [] op = "requestSmsCode" ->
              [tk EXCEPT !.pc = "awaitSms", !.log = Append(@, "auth/challenge/sms/start")]
         [] op \in PipelineOps ->
              IF op \in {"getReceiptJson", "addIncome"} /\ ~Truthy(OrElse(argInn, st.inn))
              THEN Failed(tk, "innNotSet", "local")
              ELSE IF ~autoRef THEN SendPrimary([tk EXCEPT !.ensure = "off"], st)
              ELSE LET e == ensureValidToken(st, t)
                       tk1 == [tk EXCEPT !.ensure = e]
                   IN IF e = "none" THEN [tk1 EXCEPT !.pc = "resume"]
                      ELSE SendExchange(tk1, e, st, params, Null)

\* the synchronous prefix of a public method: the task as it stands at the
\* first await (or at the throw)
Begin(op, argInn, st, params, autoRef, t, prev) ==
    LET tk == [IdleTask EXCEPT !.op = op, !.result = "pending",
                               !.held = st.accessToken,
                               !.after = IF op \in PipelineOps /\ autoRef /\ prev.pc = "done"
                                         THEN CASE prev.op = "new" -> "new"
                                                [] prev.ensure = "none" -> "none"
                                                [] prev.ensure \in {"auth", "refresh"} -> "exchange"
                                                [] OTHER -> "n/a"
                                         ELSE "n/a"]
    IN CASE op = "auth" -> SendExchange(tk, "auth", st, params, Null)
         [] op = "authByInn" -> SendExchange(tk, "lkfl", st, params, argInn)
         [] op = "authByPhone" -> SendExchange(tk, "verify", st, params, Null)
         [] op = "refreshAccessToken" -> SendExchange(tk, "refresh", st, params, Null)
         [] op = "requestSmsCode" ->
              [tk EXCEPT !.pc = "awaitSms", !.log = Append(@, "auth/challenge/sms/start")]
         [] op \in PipelineOps ->
              IF op = "getReceiptJson" /\ ~Truthy(OrElse(argInn, st.inn))
              THEN Failed(tk, "innNotSet", "local")
              ELSE IF ~autoRef THEN SendPrimary([tk EXCEPT !.ensure = "off"], st)
              ELSE LET e == ensureValidToken(st, t)
                       tk1 == [tk EXCEPT !.ensure = e]
                   IN IF e = "none" THEN [tk1 EXCEPT !.pc = "resume"]
                      ELSE SendExchange(tk1, e, st, params, Null)


\* ------------------------------------------------------------- the service
\* what a fetch of a credential exchange can settle to.  A success body is a
\* TokenResponse: non-empty tokens and a valid date, expireIn minutes ahead.
OkReplies ==
    { [kind |-> "ok", token |-> a, refreshToken |-> RefreshOf(a), expireIn |-> e,
       profileInn |-> p] : a \in AccessTokens, e \in ExpireOffsets, p \in ProfileInns }

\* a non-success status with a JSON body, with a plain-text body, a rejected
\* fetch, a success status with an empty body
FailReplies ==
    { [kind |-> k, token |-> Null, refreshToken |-> Null, expireIn |-> 0,
       profileInn |-> Null] : k \in {"httpJson", "httpText", "network", "okEmpty"} }

\* the replies to exchange x: profile is an optional field of TokenResponse,
\* which only authByPhone reads
RepliesTo(x) ==
    { r \in OkReplies \cup FailReplies : x # "verify" => r.profileInn = Null }

\* what the caller of request() is thrown for a reply that is no TokenResponse:
\* the NalogApiError of a non-success status, the rejection of fetch, or the
\* TypeError of reading response.token off a null body
ErrorOf(kind) ==
    CASE kind = "network" -> "network"
      [] kind = "okEmpty" -> "nullBody"
      [] kind \in {"httpJson", "httpText"} -> "http"

\* what the fetch of a primary call can settle to; inn is the inn field of a
\* success body, status and body are those of a non-success response
PrimaryReply(k, i, s, b) == [kind |-> k, inn |-> i, status |-> s, body |-> b]

PrimaryReplies ==
    { PrimaryReply("ok", i, "200", JsonBody(Null, Null)) : i \in ProfileInns }
    \cup { PrimaryReply("okEmpty", Null, "200", NoBody),
           PrimaryReply("network", Null, "none", NoBody),
           PrimaryReply("httpJson", Null, "400", JsonBody("Invalid credentials", "AUTH_ERROR")),
           PrimaryReply("httpText", Null, "500", TextBody("Internal Server Error")) }

\* the same with the non-success responses in all their shapes
Statuses == {"400", "500"}
ErrorBodies ==
    { JsonBody(m, c) : m \in {Null, Empty, "Invalid credentials"},
                       c \in {Null, "AUTH_ERROR"} }
    \cup { TextBody("Internal Server Error"), NoBody }

AllPrimaryReplies ==
    PrimaryReplies
    \cup { PrimaryReply(IF b.form = "json" THEN "httpJson" ELSE "httpText", Null, s, b) :
              s \in Statuses, b \in ErrorBodies }

PublicOps == ExchangeOps \cup PipelineOps \cup {"requestSmsCode"}
InnArgs == {Null, "I1"}

\* ------------------------------------------------------------------ actions
Running == { t \in Tasks : InFlight(t) }

\* a settled call stays in its slot until the caller's next move or the next
\* tick of the clock
Collected == [t \in Tasks |-> IF InFlight(t) THEN task[t] ELSE IdleTask]

\* a public asynchronous method, one of ops, is called: its code up to the
\* first await.  limit is how many calls the caller lets overlap.
StartOf(t, limit, ops) ==
    /\ ~InFlight(t)
    /\ \A u \in Tasks : u < t => InFlight(u)
    /\ Cardinality(Running) < limit
    /\ \E op \in ops, a \in InnArgs :
          /\ (a # Null => op \in {"authByInn", "getReceiptJson"})
          /\ (op = "authByInn" => a # Null)
          /\ task' = [Collected EXCEPT ![t] = Begin(op, a, authState, authParams,
                                                    autoRefreshToken, now, task[t])]
    /\ UNCHANGED <<authState, authParams, deviceId, autoRefreshToken, saveToken, file, now>>

Start(t, limit) == StartOf(t, limit, PublicOps)

\* (mutant) a failed exchange logs the client out
SettleForgetting(st, x, r, argInn, t) ==
    IF r.kind = "ok" THEN Install(st, x, r, argInn, t)
    ELSE [st EXCEPT !.accessToken = Null, !.refreshToken = Null]

\* (mutant) a rejected refresh token is dropped
SettleDropsRejected(st, x, r, argInn, t) ==
    IF r.kind = "ok" THEN Install(st, x, r, argInn, t)
    ELSE IF x = "refresh" THEN [st EXCEPT !.refreshToken = Null]
    ELSE st

\* authState once the request() of a credential exchange has settled with r:
\* a throw skips the assignments
Settle(st, x, r, argInn, t) ==
    IF r.kind = "ok" THEN Install(st, x, r, argInn, t) ELSE st

\* (mutant) a failed refresh falls back to the configured password login
ExchangeSettledFallback(tk, r, t) ==
    IF r.kind = "ok"
    THEN LET tk1 == [tk EXCEPT !.reply = [token |-> r.token,
                                          refreshToken |-> r.refreshToken,
                                          tokenExpireIn |-> DateOf(t + r.expireIn),
                                          profileInn |-> r.profileInn]]
         IN IF tk.op \in PipelineOps THEN [tk1 EXCEPT !.pc = "resume"]
            ELSE [tk1 EXCEPT !.pc = "done", !.result = "ok"]
    ELSE IF tk.exch = "refresh" /\ Truthy(authParams.inn) /\ Truthy(authParams.password)
    THEN [tk EXCEPT !.exch = "lkfl", !.argInn = authParams.inn,
                    !.log = Append(@, "auth/lkfl")]
    ELSE Failed(tk, ErrorOf(r.kind), EndpointOf(tk.exch))

\* (mutant) request() goes on to the call although ensureValidToken threw
ExchangeSettledSwallow(tk, r, t) ==
    IF r.kind = "ok"
    THEN LET tk1 == [tk EXCEPT !.reply = [token |-> r.token,
                                          refreshToken |-> r.refreshToken,
                                          tokenExpireIn |-> DateOf(t + r.expireIn),
                                          profileInn |-> r.profileInn]]
         IN IF tk.op \in PipelineOps THEN [tk1 EXCEPT !.pc = "resume"]
            ELSE [tk1 EXCEPT !.pc = "done", !.result = "ok"]
    ELSE IF tk.op \in PipelineOps THEN [tk EXCEPT !.pc = "resume"]
    ELSE Failed(tk, ErrorOf(r.kind), EndpointOf(tk.exch))

\* the call once its credential exchange has settled with r: the exchange
\* method returns the response (to its caller, or to request() through
\* ensureValidToken), or the error of request() propagates to the caller
ExchangeSettled(tk, r, t) ==
    IF r.kind = "ok"
    THEN LET tk1 == [tk EXCEPT !.reply = [token |-> r.token,
                                          refreshToken |-> r.refreshToken,
                                          tokenExpireIn |-> DateOf(t + r.expireIn),
                                          profileInn |-> r.profileInn]]
         IN IF tk.op \in PipelineOps THEN [tk1 EXCEPT !.pc = "resume"]
            ELSE [tk1 EXCEPT !.pc = "done", !.result = "ok"]
    ELSE Failed(tk, ErrorOf(r.kind), EndpointOf(tk.exch))

\* (mutant) the error of the write reaches the caller of the exchange
SaveOutcomeThrows(tk, failed) ==
    IF failed THEN Failed(tk, "writeFailed", "saveTokensToFile") ELSE tk

\* the catch block of saveTokensToFile: the error is logged and the method
\* that called saveTokensToFile goes on
SaveOutcome(tk, failed) ==
    IF failed THEN [tk EXCEPT !.diag = "Failed to save tokens to file"] ELSE tk

\* the fetch of a credential exchange settles and the method runs to its end
ExchangeResponse(t) ==
    /\ task[t].pc = "awaitExchange"
    /\ \E r \in RepliesTo(task[t].exch), wok \in BOOLEAN :
          /\ authState' = Settle(authState, task[t].exch, r, task[t].argInn, now)
          /\ file' = IF r.kind = "ok"
                     THEN saveTokensToFile(authState', deviceId, file, saveToken, wok)
                     ELSE file
          /\ task' = [task EXCEPT ![t] =
                        SaveOutcome(ExchangeSettled(@, r, now),
                                    r.kind = "ok" /\ saveFailed(saveToken, wok))]
    /\ UNCHANGED <<authParams, deviceId, autoRefreshToken, saveToken, now>>

\* request() goes on after `await this.ensureValidToken()`
Resume(t) ==
    /\ task[t].pc = "resume"
    /\ task' = [task EXCEPT ![t] = SendPrimary(@, authState)]
    /\ UNCHANGED <<authState, authParams, deviceId, autoRefreshToken, saveToken, file, now>>

\* (mutant) a non-success status of the primary call drops the access token
AfterPrimaryLogsOut(tk, r, st) ==
    LET ep == PrimaryEndpoint(tk.op)
    IN CASE r.kind = "network" -> <<Failed(tk, "network", ep), st>>
         [] r.kind \in {"httpJson", "httpText"} ->
              <<[Failed(tk, "http", ep) EXCEPT
                    !.status = r.status, !.body = r.body,
                    !.error = NalogApiErrorOf(r.status, Decode(r.body))],
                [st EXCEPT !.accessToken = Null]>>
         [] r.kind \in {"ok", "okEmpty"} ->
              \* request() returns the decoded body to the method
              LET tk1 == [tk EXCEPT !.status = r.status, !.body = r.body,
                                    !.resolved = Decode(r.body).type]
              IN IF tk1.resolved = "null"
                 THEN \* getUserInfo and addIncome read a field of it
                      IF tk.op \in {"getUserInfo", "addIncome"}
                      THEN <<Failed(tk1, "nullBody", ep), st>>
                      ELSE <<[tk1 EXCEPT !.pc = "done", !.result = "ok"], st>>
                 ELSE IF tk.op = "getUserInfo"
                 THEN <<[tk1 EXCEPT !.pc = "done", !.result = "ok"],
                        IF Truthy(r.inn) THEN [st EXCEPT !.inn = r.inn] ELSE st>>
                 ELSE IF tk.op = "addIncome" /\ ~Truthy(st.inn)
                 THEN <<Failed(tk1, "innNotDefined", "local"), st>>
                 ELSE <<[tk1 EXCEPT !.pc = "done", !.result = "ok"], st>>

\* what the method does with the body the primary call returned
AfterPrimary(tk, r, st) ==
    LET ep == PrimaryEndpoint(tk.op)
    IN CASE r.kind = "network" -> <<Failed(tk, "network", ep), st>>
         [] r.kind \in {"httpJson", "httpText"} ->
              <<[Failed(tk, "http", ep) EXCEPT
                    !.status = r.status, !.body = r.body,
                    !.error = NalogApiErrorOf(r.status, Decode(r.body))], st>>
         [] r.kind \in {"ok", "okEmpty"} ->
              \* request() returns the decoded body to the method
              LET tk1 == [tk EXCEPT !.status = r.status, !.body = r.body,
                                    !.resolved = Decode(r.body).type]
              IN IF tk1.resolved = "null"
                 THEN \* getUserInfo and addIncome read a field of it
                      IF tk.op \in {"getUserInfo", "addIncome"}
                      THEN <<Failed(tk1, "nullBody", ep), st>>
                      ELSE <<[tk1 EXCEPT !.pc = "done", !.result = "ok"], st>>
                 ELSE IF tk.op = "getUserInfo"
                 THEN <<[tk1 EXCEPT !.pc = "done", !.result = "ok"],
                        IF Truthy(r.inn) THEN [st EXCEPT !.inn = r.inn] ELSE st>>
                 ELSE IF tk.op = "addIncome" /\ ~Truthy(st.inn)
                 THEN <<Failed(tk1, "innNotDefined", "local"), st>>
                 ELSE <<[tk1 EXCEPT !.pc = "done", !.result = "ok"], st>>

\* the fetch of the primary call settles with one of replies
PrimaryResponseOf(t, replies) ==
    /\ task[t].pc = "awaitPrimary"
    /\ \E r \in replies :
          LET out == AfterPrimary(task[t], r, authState)
          IN /\ task' = [task EXCEPT ![t] = out[1]]
             /\ authState' = out[2]
    /\ UNCHANGED <<authParams, deviceId, autoRefreshToken, saveToken, file, now>>

\* what the fetch of requestSmsCode can settle to
ChallengeTokens == {"ch1", "ch2"}
SmsReplies ==
    { [kind |-> "ok", challengeToken |-> c] : c \in ChallengeTokens }
    \cup { [kind |-> k, challengeToken |-> Null] :
              k \in {"httpJson", "httpText", "network", "okEmpty"} }

\* (mutant) requestSmsCode returns nothing
SmsSettledDropsToken(tk, r) ==
    CASE r.kind = "ok" -> [tk EXCEPT !.pc = "done", !.result = "ok",
                                     !.challenge = r.challengeToken]
      [] r.kind = "httpJson" -> Failed(tk, "http", "auth/challenge/sms/start")
      [] r.kind = "httpText" -> Failed(tk, "badJson", "auth/challenge/sms/start")
      [] r.kind = "okEmpty" -> Failed(tk, "noJson", "auth/challenge/sms/start")
      [] r.kind = "network" -> Failed(tk, "network", "auth/challenge/sms/start")

\* requestSmsCode from the settling of its fetch on: the body is read with
\* response.json(), which throws a SyntaxError on a body that is no JSON
\* ("badJson") and on an empty body ("noJson")
SmsSettled(tk, r) ==
    CASE r.kind = "ok" -> [tk EXCEPT !.pc = "done", !.result = "ok",
                                     !.challenge = r.challengeToken,
                                     !.value = r.challengeToken]
      [] r.kind = "httpJson" -> Failed(tk, "http", "auth/challenge/sms/start")
      [] r.kind = "httpText" -> Failed(tk, "badJson", "auth/challenge/sms/start")
      [] r.kind = "okEmpty" -> Failed(tk, "noJson", "auth/challenge/sms/start")
      [] r.kind = "network" -> Failed(tk, "network", "auth/challenge/sms/start")

PrimaryResponse(t) == PrimaryResponseOf(t, PrimaryReplies)

\* the fetch of requestSmsCode settles
SmsResponse(t) ==
    /\ task[t].pc = "awaitSms"
    /\ \E r \in SmsReplies : task' = [task EXCEPT ![t] = SmsSettled(@, r)]
    /\ UNCHANGED <<authState, authParams, deviceId, autoRefreshToken, saveToken, file, now>>

\* (mutant) a refresh token already held is kept, as the constructor keeps it
setTokensKeepsHeld(st, acc, ref, inn) ==
    LET s1 == [st EXCEPT !.accessToken = acc]
        s2 == IF Truthy(ref) /\ ~Truthy(s1.refreshToken)
              THEN [s1 EXCEPT !.refreshToken = ref] ELSE s1
    IN IF Truthy(inn) THEN [s2 EXCEPT !.inn = inn] ELSE s2

\* (mutant) the expiry of the replaced token is dropped
setTokensResetsExpiry(st, acc, ref, inn) ==
    LET s1 == [st EXCEPT !.accessToken = acc, !.tokenExpireIn = NoDate]
        s2 == IF Truthy(ref) THEN [s1 EXCEPT !.refreshToken = ref] ELSE s1
    IN IF Truthy(inn) THEN [s2 EXCEPT !.inn = inn] ELSE s2

\* (mutant) refreshToken is assigned whether or not it was passed
setTokensAssignsRefresh(st, acc, ref, inn) ==
    LET s1 == [st EXCEPT !.accessToken = acc]
        s2 == [s1 EXCEPT !.refreshToken = ref]
    IN IF Truthy(inn) THEN [s2 EXCEPT !.inn = inn] ELSE s2

\* (mutant) inn is assigned whether or not it was passed
setTokensAssignsInn(st, acc, ref, inn) ==
    LET s1 == [st EXCEPT !.accessToken = acc]
        s2 == IF Truthy(ref) THEN [s1 EXCEPT !.refreshToken = ref] ELSE s1
    IN [s2 EXCEPT !.inn = inn]

\* setTokens(accessToken, refreshToken?, inn?)
setTokens(st, acc, ref, inn) ==
    LET s1 == [st EXCEPT !.accessToken = acc]
        s2 == IF Truthy(ref) THEN [s1 EXCEPT !.refreshToken = ref] ELSE s1
    IN IF Truthy(inn) THEN [s2 EXCEPT !.inn = inn] ELSE s2

\* getAuthState(): a copy of authState, field by field
getAuthState(st) ==
    [accessToken |-> st.accessToken, refreshToken |-> st.refreshToken,
     tokenExpireIn |-> st.tokenExpireIn, inn |-> st.inn]

\* getInn()
getInn(st) == st.inn

\* a synchronous method has been called and has returned: the call as it
\* stands in the first free slot
Returned(op, args, st) ==
    [t \in Tasks |->
        IF ~InFlight(t) /\ (\A u \in Tasks : u < t => InFlight(u))
        THEN [IdleTask EXCEPT !.op = op, !.pc = "done", !.result = "ok",
                              !.args = args, !.held = st.accessToken]
        ELSE Collected[t]]

SetTokens(limit) ==
    /\ limit > 1 \/ Running = {}
    /\ Running # Tasks
    /\ \E acc \in {"T0"}, ref \in {Null, "R0"}, inn \in {Null, "I1"} :
          /\ authState' = setTokens(authState, acc, ref, inn)
          /\ task' = Returned("setTokens", <<acc, ref, inn>>, authState)
    /\ UNCHANGED <<authParams, deviceId, autoRefreshToken, saveToken, file, now>>

\* setInn(inn)
SetInn(limit) ==
    /\ limit > 1 \/ Running = {}
    /\ Running # Tasks
    /\ \E inn \in {"I1"} :
          /\ authState' = [authState EXCEPT !.inn = inn]
          /\ task' = Returned("setInn", <<inn>>, authState)
    /\ UNCHANGED <<authParams, deviceId, autoRefreshToken, saveToken, file, now>>

\* (mutant) clearSavedTokens does nothing on a client without persistence
clearSavedTokensWhenEnabled(f, on, uok) ==
    IF ~on \/ f.kind = "absent" THEN <<f, "missing">>
    ELSE IF uok THEN <<AbsentFile, "removed">>
    ELSE <<f, "unlinkFailed">>

\* clearSavedTokens: the file afterwards and what the method met; uok is
\* whether unlinkSync succeeds, whose error the catch block drops.  saveToken
\* (on) is not read.
clearSavedTokens(f, on, uok) ==
    IF f.kind = "absent" THEN <<f, "missing">>
    ELSE IF uok THEN <<AbsentFile, "removed">>
    ELSE <<f, "unlinkFailed">>

\* clearSavedTokens() is called and returns
ClearSavedTokens(limit) ==
    /\ limit > 1 \/ Running = {}
    /\ \E t \in Tasks, uok \in BOOLEAN :
          LET c == clearSavedTokens(file, saveToken, uok)
          IN /\ ~InFlight(t)
             /\ \A u \in Tasks : u < t => InFlight(u)
             /\ file' = c[1]
             /\ task' = [Collected EXCEPT ![t] =
                           [IdleTask EXCEPT !.op = "clearSavedTokens", !.pc = "done",
                                            !.result = "ok", !.store = c[2]]]
    /\ UNCHANGED <<authState, authParams, deviceId, autoRefreshToken, saveToken, now>>

\* getAuthState() is called and returns: reply is the copy it returned
GetAuthState(limit) ==
    /\ limit > 1 \/ Running = {}
    /\ Running # Tasks
    /\ LET read == getAuthState(authState)
       IN task' = [t \in Tasks |->
                     IF Returned("getAuthState", <<>>, authState)[t].op = "getAuthState"
                     THEN [Returned("getAuthState", <<>>, authState)[t] EXCEPT
                              !.reply = [token |-> read.accessToken,
                                         refreshToken |-> read.refreshToken,
                                         tokenExpireIn |-> read.tokenExpireIn,
                                         profileInn |-> read.inn]]
                     ELSE Returned("getAuthState", <<>>, authState)[t]]
    /\ UNCHANGED <<authState, authParams, deviceId, autoRefreshToken, saveToken, file, now>>

\* getInn() is called and returns: value is what it returned
GetInn(limit) ==
    /\ limit > 1 \/ Running = {}
    /\ Running # Tasks
    /\ task' = [t \in Tasks |->
                  IF Returned("getInn", <<>>, authState)[t].op = "getInn"
                  THEN [Returned("getInn", <<>>, authState)[t] EXCEPT
                           !.value = getInn(authState)]
                  ELSE Returned("getInn", <<>>, authState)[t]]
    /\ UNCHANGED <<authState, authParams, deviceId, autoRefreshToken, saveToken, file, now>>

\* the constructor call as it stands in its slot once it has returned
NewTask(o) == [IdleTask EXCEPT !.op = "new", !.pc = "done", !.result = "ok", !.opts = o]

\* the process starts again: `new NalogApi(o)` finds what is at saveTokenPath
Restart(opts) ==
    /\ Running = {}
    /\ \E o \in opts :
          LET c == Construct(o, file, now)
          IN /\ authState' = c.authState
             /\ authParams' = c.authParams
             /\ deviceId' = c.deviceId
             /\ autoRefreshToken' = o.autoRefreshToken
             /\ saveToken' = o.saveToken
             /\ task' = [t \in Tasks |-> IF t = 1 THEN NewTask(o) ELSE IdleTask]
    /\ UNCHANGED <<file, now>>

\* a minute passes
Tick ==
    /\ now < MaxNow
    /\ now' = now + 1
    /\ task' = Collected
    /\ UNCHANGED <<authState, authParams, deviceId, autoRefreshToken, saveToken, file>>

\* ------------------------------------------------------------ specification
\* the files a client can find at saveTokenPath when it is constructed
InitFiles ==
    { AbsentFile,
      SavedRecord("T9", "R9", DateOf(0 - 1), "I9", "D9"),
      SavedRecord("T9", "R9", DateOf(0), "I9", "D9"),
      SavedRecord("T9", "R9", DateOf(RefreshWindow + 1), "I9", "D9"),
      SavedRecord("T9", Empty, DateOf(RefreshWindow + 1), "I9", "D9"),
      UnreadableFile,
      MalformedFile }

\* a client constructed at minute 0 with options from opts, finding one of files
InitFrom(opts, files) ==
    /\ now = 0
    /\ \E o \in opts, f \in files :
          LET c == Construct(o, f, now)
          IN /\ authState = c.authState
             /\ authParams = c.authParams
             /\ deviceId = c.deviceId
             /\ autoRefreshToken = o.autoRefreshToken
             /\ saveToken = o.saveToken
             /\ file = f
    /\ task = [t \in Tasks |-> IdleTask]

\* Spec: the token lifecycle of a client with persistence left at its default
\* (saveToken off, nothing at saveTokenPath), whose caller awaits every call
\* before it makes the next one
LifecycleOptions ==
    { o \in Options : ~o.saveToken /\ o.deviceId = Null /\ o.accessToken = Null }

Init == InitFrom(LifecycleOptions, {AbsentFile})

Next ==
    \/ \E t \in Tasks : Start(t, 1)
    \/ \E t \in Tasks : ExchangeResponse(t)
    \/ \E t \in Tasks : Resume(t)
    \/ \E t \in Tasks : PrimaryResponse(t)
    \/ \E t \in Tasks : SmsResponse(t)
    \/ SetTokens(1)
    \/ SetInn(1)
    \/ Tick

Spec == Init /\ [][Next]_vars

\* SpecStore: the Credential Store.  The client is constructed with or without
\* persistence, over whatever is at saveTokenPath, and the process may start
\* again over what the client left there.  The caller awaits every call.
StoreOptions ==
    { o \in Options : /\ o.accessToken = Null /\ o.refreshToken = Null
                      /\ o.deviceId = Null /\ o.phone = <<>> /\ o.autoRefreshToken
                      /\ (o.inn = Null <=> o.password = Null) }

InitStore ==
    /\ now = 0
    /\ \E o \in StoreOptions, f \in InitFiles :
          LET c == Construct(o, f, now)
          IN /\ authState = c.authState
             /\ authParams = c.authParams
             /\ deviceId = c.deviceId
             /\ autoRefreshToken = o.autoRefreshToken
             /\ saveToken = o.saveToken
             /\ file = f
             /\ task = [t \in Tasks |-> IF t = 1 THEN NewTask(o) ELSE IdleTask]

\* the calls that reach the Credential Store, and the one that changes
\* Session State without reaching it
StoreOps == ExchangeOps \cup {"requestSmsCode", "getUserInfo"}

NextStore ==
    \/ \E t \in Tasks : StartOf(t, 1, StoreOps)
    \/ \E t \in Tasks : ExchangeResponse(t)
    \/ \E t \in Tasks : Resume(t)
    \/ \E t \in Tasks : PrimaryResponse(t)
    \/ \E t \in Tasks : SmsResponse(t)
    \/ ClearSavedTokens(1)
    \/ Restart(StoreOptions)

SpecStore == InitStore /\ [][NextStore]_vars

\* SpecErrors: the Request Pipeline over every shape of response.  A client
\* without persistence makes one authenticated call after another.
ErrorOptions ==
    { o \in LifecycleOptions : o.phone = <<>> /\ (o.inn = Null <=> o.password = Null) }

InitErrors == InitFrom(ErrorOptions, {AbsentFile})

NextErrors ==
    \/ \E t \in Tasks : StartOf(t, 1, PipelineOps)
    \/ \E t \in Tasks : ExchangeResponse(t)
    \/ \E t \in Tasks : Resume(t)
    \/ \E t \in Tasks : PrimaryResponseOf(t, AllPrimaryReplies)

SpecErrors == InitErrors /\ [][NextErrors]_vars

\* SpecOverlap: a caller that does not await a call before it makes the next
\* one: up to two authenticated calls are in flight on one client
OverlapOps == {"call"}

OverlapOptions == { o \in ErrorOptions : o.autoRefreshToken }

InitOverlap == InitFrom(OverlapOptions, {AbsentFile})

NextOverlap ==
    \/ \E t \in Tasks : StartOf(t, 2, OverlapOps)
    \/ \E t \in Tasks : ExchangeResponse(t)
    \/ \E t \in Tasks : Resume(t)
    \/ \E t \in Tasks : PrimaryResponse(t)

SpecOverlap == InitOverlap /\ [][NextOverlap]_vars


\* SpecManual: a client with the auto-refresh flag off, with or without
\* persistence, whose caller logs in, refreshes and installs tokens itself
ManualOptions ==
    { o \in Options : /\ ~o.autoRefreshToken /\ o.deviceId = Null /\ o.phone = <<>>
                       /\ o.refreshToken = Null
                       /\ (o.inn = Null <=> o.password = Null) }

ManualOps == PipelineOps \cup {"authByInn", "refreshAccessToken"}

InitManual == InitFrom(ManualOptions, InitFiles)

NextManual ==
    \/ \E t \in Tasks : StartOf(t, 1, ManualOps)
    \/ \E t \in Tasks : ExchangeResponse(t)
    \/ \E t \in Tasks : PrimaryResponse(t)
    \/ SetTokens(1)
    \/ Tick

SpecManual == InitManual /\ [][NextManual]_vars


\* SpecSubject: a client of one account of the service.  Subject is the inn of
\* that account: every token the service issues is issued for it, and the
\* profile of a TokenResponse and the body of `user` carry it or no inn.  The
\* client is configured without inn and its caller may pass setInn and
\* setTokens the inn of another account ("I1").
Subject == "I2"

SubjectOptions ==
    { o \in LifecycleOptions : /\ o.inn = Null /\ o.password = Null /\ o.phone = <<>>
                                /\ o.autoRefreshToken }

SubjectOps == {"authByPhone", "refreshAccessToken", "getUserInfo", "call"}

InitSubject == InitFrom(SubjectOptions, {AbsentFile})

NextSubject ==
    \/ \E t \in Tasks : StartOf(t, 1, SubjectOps)
    \/ \E t \in Tasks : ExchangeResponse(t)
    \/ \E t \in Tasks : Resume(t)
    \/ \E t \in Tasks : PrimaryResponse(t)
    \/ SetTokens(1)
    \/ SetInn(1)

SpecSubject == InitSubject /\ [][NextSubject]_vars


\* SpecFrame: every public method of a client with or without persistence,
\* whose caller awaits every call
FrameOptions ==
    { o \in Options : /\ o.accessToken = Null /\ o.refreshToken = Null
                      /\ o.deviceId = Null /\ o.phone = <<>> /\ o.autoRefreshToken
                      /\ (o.inn = Null <=> o.password = Null) }

FrameFiles == { AbsentFile, SavedRecord("T9", "R9", DateOf(RefreshWindow + 1), "I9", "D9") }

InitFrame == InitFrom(FrameOptions, FrameFiles)

NextFrame ==
    \/ \E t \in Tasks : StartOf(t, 1, PublicOps)
    \/ \E t \in Tasks : ExchangeResponse(t)
    \/ \E t \in Tasks : Resume(t)
    \/ \E t \in Tasks : PrimaryResponse(t)
    \/ \E t \in Tasks : SmsResponse(t)
    \/ SetTokens(1)
    \/ SetInn(1)
    \/ ClearSavedTokens(1)
    \/ GetAuthState(1)
    \/ GetInn(1)

SpecFrame == InitFrame /\ [][NextFrame]_vars


\* SpecExpiry: where the expiry of Session State comes from.  A client with or
\* without persistence, over whatever is at saveTokenPath, logs in, makes
\* authenticated calls and has tokens installed from outside.
ExpiryOps == {"auth", "authByInn", "call"}

InitExpiry == InitFrom(StoreOptions, InitFiles)

NextExpiry ==
    \/ \E t \in Tasks : StartOf(t, 1, ExpiryOps)
    \/ \E t \in Tasks : ExchangeResponse(t)
    \/ \E t \in Tasks : Resume(t)
    \/ \E t \in Tasks : PrimaryResponse(t)
    \/ SetTokens(1)

SpecExpiry == InitExpiry /\ [][NextExpiry]_vars


\* SpecInstalled: a client without persistence that is given its tokens from
\* outside, through the accessToken and refreshToken options or setTokens,
\* and makes authenticated calls as time passes
InstalledOptions ==
    { o \in Options : /\ ~o.saveToken /\ o.deviceId = Null /\ o.phone = <<>>
                      /\ o.autoRefreshToken /\ (o.inn = Null <=> o.password = Null) }

InitInstalled == InitFrom(InstalledOptions, {AbsentFile})

NextInstalled ==
    \/ \E t \in Tasks : StartOf(t, 1, PipelineOps)
    \/ \E t \in Tasks : ExchangeResponse(t)
    \/ \E t \in Tasks : Resume(t)
    \/ \E t \in Tasks : PrimaryResponse(t)
    \/ SetTokens(1)
    \/ Tick

SpecInstalled == InitInstalled /\ [][NextInstalled]_vars


\* SpecConstruct: the constructor over every combination of the inn,
\* accessToken, refreshToken, deviceId and saveToken options and of what is at
\* saveTokenPath, a record without inn included; the client then makes calls
\* and the process may start again
ConstructOptions ==
    { o \in Options : /\ o.autoRefreshToken /\ o.phone = <<>>
                      /\ (o.inn = Null <=> o.password = Null) }

ConstructFiles ==
    InitFiles \cup { SavedRecord("T9", "R9", DateOf(RefreshWindow + 1), Null, "D9") }

InitConstruct ==
    /\ now = 0
    /\ \E o \in ConstructOptions, f \in ConstructFiles :
          LET c == Construct(o, f, now)
          IN /\ authState = c.authState
             /\ authParams = c.authParams
             /\ deviceId = c.deviceId
             /\ autoRefreshToken = o.autoRefreshToken
             /\ saveToken = o.saveToken
             /\ file = f
             /\ task = [t \in Tasks |-> IF t = 1 THEN NewTask(o) ELSE IdleTask]

NextConstruct ==
    \/ \E t \in Tasks : StartOf(t, 1, {"call"})
    \/ \E t \in Tasks : ExchangeResponse(t)
    \/ \E t \in Tasks : Resume(t)
    \/ \E t \in Tasks : PrimaryResponse(t)
    \/ Restart(ConstructOptions)

SpecConstruct == InitConstruct /\ [][NextConstruct]_vars


\* SpecRace: a caller that starts credential exchanges without awaiting them:
\* up to two of password login, phone verification and refresh are in flight
\* on one client, and no setTokens is called
InitRace == InitFrom(OverlapOptions, {AbsentFile})

NextRace ==
    \/ \E t \in Tasks : StartOf(t, 2, ExchangeOps)
    \/ \E t \in Tasks : ExchangeResponse(t)

SpecRace == InitRace /\ [][NextRace]_vars


\* ------------------------------------------------------------------ claims
\* what the claims say of Session State, in their own terms
HoldsAccessToken == authState.accessToken \notin {Null, Empty}
HoldsRefreshToken == authState.refreshToken \notin {Null, Empty}
\* the minutes left until the known expiry are at most n, are more than n
LeftAtMost(n) == \E e \in authState.tokenExpireIn : e - now <= n
LeftMoreThan(n) == \E e \in authState.tokenExpireIn : e - now > n

\* this step is the call of a public method in slot t
Called(t) == ~InFlight(t) /\ task'[t] # task[t] /\ task'[t].op # "none"

\* this step is the call of a request() with requireAuth and auto-refresh in
\* slot t, which reaches ensureValidToken
CalledEnsure(t) ==
    Called(t) /\ task'[t].op \in PipelineOps /\ autoRefreshToken /\ task'[t].ensure # "n/a"

\* C1: with auto-refresh on, ensureValidToken does exactly one of three things
\* before an authenticated call is sent: it invokes auth() when no access token
\* is held, it invokes refreshAccessToken() when an access token is held whose
\* expiry is at most 5 minutes away or has passed, and it performs no exchange
\* when the access token has more than 5 minutes left.
C1_EnsureStep(t) ==
    LET tk == task'[t]
        \* what each of the three does, as seen at the first await
        didAuth == /\ tk.ensure = "auth"
                   /\ \/ tk.pc = "awaitExchange" /\ tk.log = <<EndpointOf(tk.exch)>>
                      \/ tk.pc = "done" /\ tk.err \in {"guidance", "nocreds"} /\ tk.log = <<>>
        didRefresh == /\ tk.ensure = "refresh"
                      /\ \/ tk.pc = "awaitExchange" /\ tk.exch = "refresh"
                            /\ tk.log = <<"auth/token">>
                         \/ tk.pc = "done" /\ tk.err = "norefresh" /\ tk.log = <<>>
        didNothing == tk.ensure = "none" /\ tk.pc = "resume" /\ tk.log = <<>>
    IN /\ didAuth \/ didRefresh \/ didNothing
       /\ ~HoldsAccessToken => didAuth
       /\ HoldsAccessToken /\ LeftAtMost(5) => didRefresh
       /\ HoldsAccessToken /\ LeftMoreThan(5) => didNothing

C1_EnsureValidTokenThreeWays ==
    [][\A t \in Tasks : CalledEnsure(t) => C1_EnsureStep(t)]_vars

\* C1 witness: an authenticated call whose ensureValidToken started the refresh
\* of a held access token
C1_Witness ==
    \E t \in Tasks : /\ task[t].op \in PipelineOps /\ task[t].ensure = "refresh"
                     /\ task[t].pc = "awaitExchange" /\ HoldsAccessToken


\* this step runs auth() in slot t: called by the caller, or by ensureValidToken
CalledAuth(t) ==
    Called(t) /\ (task'[t].op = "auth" \/ task'[t].ensure = "auth")

PasswordConfigured == authParams.inn \notin {Null, Empty} /\ authParams.password \notin {Null, Empty}
PhoneConfigured == authParams.phone # <<>>

\* C2: auth() dispatches by strict precedence over (refresh token held,
\* inn+password configured, phone configured): a held refresh token leads to the
\* refresh exchange; otherwise inn+password lead to the password exchange;
\* otherwise a phone yields the guidance error with no exchange; otherwise the
\* 'no credentials configured' error with no exchange.
C2_AuthStep(t) ==
    LET tk == task'[t]
        sent(x) == tk.pc = "awaitExchange" /\ tk.exch = x /\ tk.log = <<EndpointOf(x)>>
        threw(e) == /\ tk.pc = "done" /\ tk.result = "error" /\ tk.err = e
                    /\ tk.log = <<>> /\ IsNalogApiError(tk.err)
    IN IF HoldsRefreshToken THEN sent("refresh")
       ELSE IF PasswordConfigured THEN sent("lkfl") /\ tk.argInn = authParams.inn
       ELSE IF PhoneConfigured THEN threw("guidance")
       ELSE threw("nocreds")

C2_AuthDispatchPrecedence ==
    [][\A t \in Tasks : CalledAuth(t) => C2_AuthStep(t)]_vars

\* C2 witness: auth() chose the refresh exchange although inn, password and
\* phone are all configured
C2_Witness ==
    \E t \in Tasks : /\ task[t].op = "auth" /\ task[t].exch = "refresh"
                     /\ task[t].pc = "awaitExchange"
                     /\ PasswordConfigured /\ PhoneConfigured


\* the refresh exchange of a call is on its way
RefreshPending(tk) == tk.exch = "refresh" /\ tk.pc = "awaitExchange"

\* the set of endpoints a call has fetched
Fetched(tk) == { tk.log[i] : i \in DOMAIN tk.log }

MaintenanceEndpoints == {"auth/token", "auth/lkfl"}

\* C3: a failed refresh exchange leaves Session State exactly as it was before
\* the call (refresh token, access token, expiry and subject identifier), and
\* no retry is issued.
C3_RefreshStep(t) ==
    /\ Called(t) /\ RefreshPending(task'[t]) => authState' = authState
    /\ RefreshPending(task[t]) /\ task'[t].reply = NoReply =>
          /\ authState' = authState
          /\ task'[t] # task[t] =>
                /\ task'[t].pc = "done" /\ task'[t].result = "error"
                /\ task'[t].errFrom = "auth/token"
                /\ task'[t].log = <<"auth/token">>

C3_FailedRefreshKeepsSession ==
    [][\A t \in Tasks : C3_RefreshStep(t)]_vars

\* C3 witness: a refresh has failed and the stale access token and the refresh
\* token are still held
C3_Witness ==
    \E t \in Tasks : /\ task[t].exch = "refresh" /\ task[t].result = "error"
                     /\ task[t].errFrom = "auth/token" /\ task[t].reply = NoReply
                     /\ HoldsRefreshToken /\ HoldsAccessToken /\ LeftAtMost(5)

\* C4: on a client with neither inn+password nor a phone configured and no
\* refresh token, auth() yields a configuration error (a NalogApiError),
\* performs no network exchange and leaves Session State unchanged.
C4_NoCredentialsStep(t) ==
    /\ task'[t].pc = "done" /\ task'[t].result = "error"
    /\ task'[t].err = "nocreds" /\ IsNalogApiError(task'[t].err)
    /\ task'[t].log = <<>>
    /\ authState' = authState

C4_AuthWithoutCredentialsFails ==
    [][\A t \in Tasks :
          /\ Called(t) /\ task'[t].op = "auth"
          /\ ~HoldsRefreshToken /\ ~PasswordConfigured /\ ~PhoneConfigured
          => C4_NoCredentialsStep(t)]_vars

\* C4 witness: auth() has thrown the 'no credentials' error on a client that
\* has an inn but no password
C4_Witness ==
    \E t \in Tasks : /\ task[t].op = "auth" /\ task[t].err = "nocreds"
                     /\ task[t].log = <<>> /\ authParams.inn # Null

\* C5: when a refresh exchange fails inside auth() or ensureValidToken, the
\* password login is never issued as a fallback in the same operation, even
\* with inn+password configured; the caller receives the refresh error.
C5_NoPasswordFallback ==
    \A t \in Tasks :
       /\ task[t].exch = "refresh" /\ task[t].reply = NoReply /\ task[t].result = "error" =>
             /\ task[t].pc = "done"
             /\ task[t].log = <<"auth/token">>
             /\ task[t].errFrom = "auth/token"
             /\ task[t].err \in {"http", "network", "nullBody"}
       /\ \A i, j \in DOMAIN task[t].log :
             i < j => ~(task[t].log[i] = "auth/token" /\ task[t].log[j] = "auth/lkfl")

\* C5 witness: the refresh run by auth() or by ensureValidToken has failed on a
\* client with inn and password configured
C5_Witness ==
    \E t \in Tasks : /\ task[t].op \in PipelineOps \cup {"auth"}
                     /\ task[t].exch = "refresh" /\ task[t].reply = NoReply
                     /\ task[t].result = "error" /\ task[t].errFrom = "auth/token"
                     /\ PasswordConfigured

\* C6: when the session holds an access token whose expiry is less than 5
\* minutes away and a refresh token, the next authenticated call issues exactly
\* one refresh exchange strictly before the requested call, and the requested
\* call carries the access token that refresh returned as its bearer.
C6_StaleStep(t) ==
    /\ CalledEnsure(t) /\ HoldsAccessToken /\ LeftAtMost(5) /\ HoldsRefreshToken
    => /\ RefreshPending(task'[t])
       /\ task'[t].ensure = "refresh"
       /\ task'[t].log = <<"auth/token">>

C6_Sent(t) ==
    /\ task[t].op \in PipelineOps /\ task[t].ensure = "refresh"
    /\ PrimaryEndpoint(task[t].op) \in Fetched(task[t])
    => /\ task[t].log = <<"auth/token", PrimaryEndpoint(task[t].op)>>
       /\ task[t].bearer = task[t].reply.token
       /\ task[t].bearer \notin {Null, Empty}

C6_StaleCallRefreshesFirst ==
    /\ [][\A t \in Tasks : C6_StaleStep(t)]_vars
    /\ [](\A t \in Tasks : C6_Sent(t))

\* C6 witness: the requested call is out, after one refresh, with the refreshed
\* token as bearer and not the one held before
C6_Witness ==
    \E t \in Tasks : /\ task[t].op \in PipelineOps /\ task[t].ensure = "refresh"
                     /\ task[t].pc = "awaitPrimary"
                     /\ task[t].log = <<"auth/token", PrimaryEndpoint(task[t].op)>>
                     /\ task[t].bearer = task[t].reply.token
                     /\ task[t].held \notin {Null, Empty, task[t].bearer}

\* C7: if the token maintenance of an authenticated call (the auth or refresh
\* run by ensureValidToken) fails with a remote rejection or a configuration
\* error, the caller receives that error and the requested call is never sent.
MaintenanceFailed(tk) ==
    /\ tk.result = "error"
    /\ tk.errFrom \in MaintenanceEndpoints \/ tk.err \in {"guidance", "nocreds", "norefresh"}

C7_MaintenanceFailurePropagates ==
    \A t \in Tasks :
       task[t].op \in PipelineOps =>
          /\ MaintenanceFailed(task[t]) =>
                /\ task[t].pc = "done"
                /\ PrimaryEndpoint(task[t].op) \notin Fetched(task[t])
                /\ task[t].bearer = Null
          /\ task[t].ensure \in {"auth", "refresh"} /\ task[t].reply = NoReply =>
                /\ task[t].pc \in {"awaitExchange", "done"}
                /\ task[t].pc = "done" => MaintenanceFailed(task[t])
          /\ task[t].ensure \in {"auth", "refresh"}
             /\ PrimaryEndpoint(task[t].op) \in Fetched(task[t]) =>
                task[t].reply # NoReply /\ Len(task[t].log) = 2

\* C7 witness: an authenticated call has failed with the rejection of the
\* password login that ensureValidToken ran
C7_Witness ==
    \E t \in Tasks : /\ task[t].op \in PipelineOps /\ task[t].ensure = "auth"
                     /\ task[t].result = "error" /\ task[t].err = "http"
                     /\ task[t].errFrom = "auth/lkfl"
                     /\ task[t].log = <<"auth/lkfl">>

\* C8: every public operation issues at most two network exchanges, at most one
\* for token maintenance followed by at most one for the primary action, also
\* when the token the maintenance exchange returned is itself stale or expired.
C8_AtMostTwoExchanges ==
    \A t \in Tasks :
       LET tk == task[t] IN
       /\ Len(tk.log) <= 2
       /\ tk.op \notin PipelineOps => Len(tk.log) <= 1
       /\ Len(tk.log) = 2 =>
             tk.log[1] \in MaintenanceEndpoints /\ tk.log[2] = PrimaryEndpoint(tk.op)
       /\ tk.op \in PipelineOps /\ Len(tk.log) = 1 =>
             tk.log[1] \in MaintenanceEndpoints \cup {PrimaryEndpoint(tk.op)}

\* C8 witness: the primary call is out after a maintenance exchange that
\* returned a token already within the refresh window
C8_Witness ==
    \E t \in Tasks : /\ task[t].op \in PipelineOps
                     /\ Len(task[t].log) = 2
                     /\ task[t].pc = "awaitPrimary"
                     /\ HoldsAccessToken /\ LeftAtMost(5)
                     /\ authState.accessToken = task[t].reply.token

\* C9: calling ensureValidToken twice in a row while the access token has more
\* than 5 minutes left triggers zero network exchanges on the second call and
\* leaves Session State unchanged.
C9_SecondCallStep(t) ==
    /\ CalledEnsure(t) /\ task'[t].after \in {"none", "exchange"}
    /\ HoldsAccessToken /\ LeftMoreThan(5)
    => /\ task'[t].ensure = "none"
       /\ task'[t].pc = "resume"
       /\ task'[t].log = <<>>
       /\ authState' = authState

C9_EnsureValidTokenIdempotent ==
    [][\A t \in Tasks : C9_SecondCallStep(t)]_vars

\* C9 witness: a second authenticated call in a row on a fresh token stands
\* past ensureValidToken with nothing fetched
C9_Witness ==
    \E t \in Tasks : /\ task[t].op \in PipelineOps /\ task[t].after = "none"
                     /\ task[t].ensure = "none" /\ task[t].pc = "resume"
                     /\ task[t].log = <<>>
                     /\ HoldsAccessToken /\ LeftMoreThan(5)

\* C10: on a client holding a refresh token but no access token, auth() performs
\* exactly one network exchange, the refresh exchange, and on success the access
\* token, refresh token and expiry of Session State equal the returned values.
C10_RefreshableStep(t) ==
    /\ Called(t) /\ task'[t].op = "auth"
    /\ ~HoldsAccessToken /\ HoldsRefreshToken
    => RefreshPending(task'[t]) /\ task'[t].log = <<"auth/token">>

C10_Settled(t) ==
    /\ task[t].op = "auth" /\ task[t].exch = "refresh" /\ task[t].result = "ok"
    => /\ task[t].log = <<"auth/token">>
       /\ authState.accessToken = task[t].reply.token
       /\ authState.refreshToken = task[t].reply.refreshToken
       /\ authState.tokenExpireIn = task[t].reply.tokenExpireIn
       /\ task[t].reply # NoReply

C10_AuthRefreshesWithStoredToken ==
    /\ [][\A t \in Tasks : C10_RefreshableStep(t)]_vars
    /\ [](\A t \in Tasks : C10_Settled(t))

\* C10 witness: auth() of a client that held a refresh token and no access
\* token has succeeded through one refresh exchange
C10_Witness ==
    \E t \in Tasks : /\ task[t].op = "auth" /\ task[t].exch = "refresh"
                     /\ task[t].result = "ok" /\ task[t].held = Null
                     /\ task[t].log = <<"auth/token">>
                     /\ authState.accessToken = task[t].reply.token

\* C11: refreshAccessToken called while no refresh token is held fails
\* immediately with a NalogApiError, without issuing any network exchange and
\* without changing Session State or the persisted record.
C11_NoRefreshTokenStep(t) ==
    /\ task'[t].pc = "done" /\ task'[t].result = "error"
    /\ task'[t].err = "norefresh" /\ IsNalogApiError(task'[t].err)
    /\ task'[t].log = <<>>
    /\ authState' = authState
    /\ file' = file

C11_RefreshWithoutTokenFails ==
    [][\A t \in Tasks :
          Called(t) /\ task'[t].op = "refreshAccessToken" /\ ~HoldsRefreshToken
          => C11_NoRefreshTokenStep(t)]_vars

\* C11 witness: refreshAccessToken has failed at once on a client with
\* persistence on that found a record without a refresh token
C11_Witness ==
    \E t \in Tasks : /\ task[t].op = "refreshAccessToken" /\ task[t].err = "norefresh"
                     /\ task[t].log = <<>> /\ ~HoldsRefreshToken
                     /\ saveToken /\ file.kind = "record"

\* C12: on a fresh client configured with inn+password, a successful auth()
\* performs the password exchange and afterwards the session snapshot holds the
\* returned access token, the returned refresh token, the returned expiry, and
\* the configured inn as subject identifier.
C12_PasswordStep(t) ==
    /\ Called(t) /\ task'[t].op = "auth"
    /\ ~HoldsRefreshToken /\ PasswordConfigured
    => /\ task'[t].pc = "awaitExchange" /\ task'[t].exch = "lkfl"
       /\ task'[t].log = <<"auth/lkfl">>

C12_Settled(t) ==
    /\ task[t].op = "auth" /\ task[t].exch = "lkfl" /\ task[t].result = "ok"
    => /\ task[t].log = <<"auth/lkfl">>
       /\ task[t].reply # NoReply
       /\ authState.accessToken = task[t].reply.token
       /\ authState.refreshToken = task[t].reply.refreshToken
       /\ authState.tokenExpireIn = task[t].reply.tokenExpireIn
       /\ authState.inn = authParams.inn

C12_PasswordAuthInstallsSession ==
    /\ [][\A t \in Tasks : C12_PasswordStep(t)]_vars
    /\ [](\A t \in Tasks : C12_Settled(t))

\* C12 witness: auth() of a client that held no token at all has succeeded
\* through the password exchange
C12_Witness ==
    \E t \in Tasks : /\ task[t].op = "auth" /\ task[t].exch = "lkfl"
                     /\ task[t].result = "ok" /\ task[t].held = Null
                     /\ authState.accessToken = task[t].reply.token
                     /\ authState.tokenExpireIn = DateOf(now + RefreshWindow + 1)
                     /\ authState.inn = "I1"

\* the record f holds the session st and the device identity dev
Persisted(f, st, dev) ==
    /\ f.kind = "record"
    /\ f.accessToken = st.accessToken /\ f.refreshToken = st.refreshToken
    /\ f.tokenExpireIn = st.tokenExpireIn /\ f.inn = st.inn
    /\ f.deviceId = dev

\* this step is the successful return of credential exchange x in slot t
Exchanged(t, x) ==
    /\ task[t].pc = "awaitExchange" /\ task[t].exch = x
    /\ task'[t].reply # NoReply

SaveFailureLogged(tk) == tk.diag = "Failed to save tokens to file"

\* C13: on success, authByPhone installs the returned access token, refresh
\* token and expiry into Session State, sets the subject identifier to the
\* returned profile's inn when the response carries one and otherwise leaves
\* the subject identifier unchanged, and then triggers a Credential Store save.
C13_VerifiedStep(t) ==
    LET r == task'[t].reply
    IN /\ task'[t].pc = "done" /\ task'[t].result = "ok"
       /\ task'[t].log = <<"auth/challenge/sms/verify">>
       /\ authState'.accessToken = r.token
       /\ authState'.refreshToken = r.refreshToken
       /\ authState'.tokenExpireIn = r.tokenExpireIn
       /\ authState'.inn = IF r.profileInn \notin {Null, Empty} THEN r.profileInn
                           ELSE authState.inn
       \* the save: the record of the new session is written, or the write
       \* has failed and is logged; with persistence off the save does nothing
       /\ saveToken => \/ Persisted(file', authState', deviceId)
                        \/ (SaveFailureLogged(task'[t]) /\ file' = file)
       /\ ~saveToken => file' = file

C13_AuthByPhoneInstallsAndSaves ==
    [][\A t \in Tasks : Exchanged(t, "verify") => C13_VerifiedStep(t)]_vars

\* C13 witness: authByPhone has succeeded with a profile, whose inn is now the
\* subject identifier in Session State and in the saved record
C13_Witness ==
    \E t \in Tasks : /\ task[t].op = "authByPhone" /\ task[t].result = "ok"
                     /\ task[t].reply.profileInn = "I2"
                     /\ authState.inn = "I2" /\ authParams.inn = "I1"
                     /\ saveToken /\ Persisted(file, authState, deviceId)

\* C14: requestSmsCode, whether it succeeds or fails, leaves Session State and
\* the persisted record unchanged; on success it returns the challenge token
\* from the response, and it never triggers auth or refresh.
C14_SmsStep(t) ==
    /\ Called(t) /\ task'[t].op = "requestSmsCode" =>
          /\ task'[t].pc = "awaitSms"
          /\ task'[t].log = <<"auth/challenge/sms/start">>
          /\ task'[t].ensure = "n/a" /\ task'[t].exch = "none"
          /\ authState' = authState /\ file' = file /\ deviceId' = deviceId
    /\ task[t].pc = "awaitSms" /\ task'[t] # task[t] =>
          /\ task'[t].pc = "done" /\ task'[t].result \in {"ok", "error"}
          /\ task'[t].log = <<"auth/challenge/sms/start">>
          /\ task'[t].ensure = "n/a" /\ task'[t].exch = "none"
          /\ authState' = authState /\ file' = file /\ deviceId' = deviceId
          /\ task'[t].result = "ok" =>
                /\ task'[t].challenge \in ChallengeTokens
                /\ task'[t].value = task'[t].challenge

C14_RequestSmsCodeFrame ==
    [][\A t \in Tasks : C14_SmsStep(t)]_vars

\* C14 witness: requestSmsCode has returned the challenge token on a client
\* whose access token is due for a refresh, with nothing else fetched
C14_Witness ==
    \E t \in Tasks : /\ task[t].op = "requestSmsCode" /\ task[t].result = "ok"
                     /\ task[t].value = "ch2"
                     /\ task[t].log = <<"auth/challenge/sms/start">>
                     /\ HoldsAccessToken /\ LeftAtMost(5) /\ HoldsRefreshToken
                     /\ saveToken /\ file.kind = "record"

ExchangeEndpoints ==
    {"auth/lkfl", "auth/challenge/sms/start", "auth/challenge/sms/verify", "auth/token"}

\* C15: every failure of a credential exchange (authByInn, requestSmsCode,
\* authByPhone, refreshAccessToken) is surfaced to the caller as a NalogApiError,
\* for every kind of failure response: a non-success status with a JSON body,
\* a non-success status with a non-JSON body, and a transport-level failure.
C15_ExchangeFailuresAreTyped ==
    \A t \in Tasks :
       /\ task[t].result = "error" /\ task[t].errFrom \in ExchangeEndpoints
       /\ task[t].err \in {"http", "badJson", "network"}
       => IsNalogApiError(task[t].err)

\* C16: with persistence enabled and writes succeeding, immediately after every
\* successful credential exchange (authByInn, authByPhone, refreshAccessToken)
\* the persisted record's accessToken, refreshToken, expiry, subjectId and
\* deviceId equal the current Session State and device identity; a failed
\* exchange writes nothing.
C16_ExchangeStep(t) ==
    /\ \A x \in {"lkfl", "verify", "refresh"} :
          Exchanged(t, x) /\ saveToken /\ ~SaveFailureLogged(task'[t])
          => Persisted(file', authState', deviceId')
    /\ task[t].pc = "awaitExchange" /\ task'[t].result = "error" => file' = file

C16_SavedRecordMatchesSession ==
    [][\A t \in Tasks : C16_ExchangeStep(t)]_vars

\* C16 witness: a refresh with the refresh token and the device identity of a
\* loaded record has succeeded, and the record now holds the new session
C16_Witness ==
    \E t \in Tasks : /\ task[t].exch = "refresh" /\ task[t].reply # NoReply
                     /\ saveToken /\ deviceId = "D9"
                     /\ authState.accessToken = task[t].reply.token
                     /\ authState.inn = "I9"
                     /\ Persisted(file, authState, deviceId)

\* C17: when the Credential Store write fails after a credential exchange that
\* succeeded over the network, the exchange operation still returns the token
\* response to its caller without raising, and Session State holds the newly
\* returned tokens; the write failure is only reported on the diagnostic
\* channel.
C17_WriteFailedStep(t) ==
    LET tk == task'[t]
    IN /\ tk.result # "error" /\ tk.err = "none"
       /\ tk.reply # NoReply
       /\ tk.op \in ExchangeOps => tk.pc = "done" /\ tk.result = "ok"
       /\ tk.op \in PipelineOps => tk.pc = "resume"
       /\ authState'.accessToken = tk.reply.token
       /\ authState'.refreshToken = tk.reply.refreshToken
       /\ authState'.tokenExpireIn = tk.reply.tokenExpireIn
       /\ file' = file

C17_WriteFailureIsOnlyLogged ==
    /\ [][\A t \in Tasks :
             task[t].pc = "awaitExchange" /\ SaveFailureLogged(task'[t])
             => C17_WriteFailedStep(t)]_vars
    /\ [](\A t \in Tasks : task[t].err # "writeFailed")

\* C17 witness: authByInn has returned its response although the write failed:
\* the session holds the new tokens and nothing is at saveTokenPath
C17_Witness ==
    \E t \in Tasks : /\ task[t].op = "authByInn" /\ task[t].result = "ok"
                     /\ SaveFailureLogged(task[t])
                     /\ authState.accessToken = task[t].reply.token
                     /\ saveToken /\ file.kind = "absent"

\* the constructor has just returned in slot t: the client is as it left it
Constructed(t) == task[t].op = "new" /\ task[t].pc = "done"

\* the Session State and device identity of a client that loaded nothing: the
\* field initialisers and what the options give
Unloaded(o) ==
    /\ authState.accessToken = o.accessToken
    /\ authState.refreshToken = o.refreshToken
    /\ authState.tokenExpireIn = NoDate
    /\ authState.inn = o.inn
    /\ IF o.deviceId \notin {Null, Empty} THEN deviceId = o.deviceId
       ELSE deviceId \in GeneratedDeviceIds /\ deviceId # file.deviceId

\* C18: loading a persisted record whose accessTokenExpiry is in the past and
\* whose refreshToken is non-empty yields a Session State with accessToken =
\* null and refreshToken equal to the record's refresh token.
C18_ExpiredRecordKeepsRefreshToken ==
    \A t \in Tasks :
       /\ Constructed(t) /\ task[t].opts.saveToken
       /\ task[t].opts.accessToken = Null
       /\ file.kind = "record"
       /\ file.refreshToken \notin {Null, Empty}
       /\ \E e \in file.tokenExpireIn : e < now
       => /\ authState.accessToken = Null
          /\ authState.refreshToken = file.refreshToken

\* C18 witness: a client constructed over a record that expired a minute ago
C18_Witness ==
    \E t \in Tasks : /\ Constructed(t) /\ saveToken
                     /\ file.kind = "record" /\ file.accessToken = "T9"
                     /\ file.tokenExpireIn = DateOf(now - 1)
                     /\ authState.accessToken = Null
                     /\ authState.refreshToken = "R9"

\* C19: loading a persisted record whose refreshToken is empty leaves every
\* Session State field (access token, refresh token, expiry, subject
\* identifier) and the device identity at their empty/default values, even
\* when the record carries an unexpired access token, an inn and a deviceId.
C19_RecordWithoutRefreshTokenIgnored ==
    \A t \in Tasks :
       /\ Constructed(t) /\ task[t].opts.saveToken
       /\ file.kind = "record" /\ file.refreshToken \in {Null, Empty}
       => Unloaded(task[t].opts)

\* C19 witness: a client constructed over a record with an unexpired access
\* token, an inn and a deviceId but no refresh token
C19_Witness ==
    \E t \in Tasks : /\ Constructed(t) /\ saveToken
                     /\ file.kind = "record" /\ file.refreshToken = Empty
                     /\ file.accessToken = "T9" /\ file.inn = "I9" /\ file.deviceId = "D9"
                     /\ \E e \in file.tokenExpireIn : e > now
                     /\ authState.accessToken = Null /\ deviceId \in GeneratedDeviceIds

\* C20: loading at construction never raises to the caller: when persistence
\* is disabled, the location does not exist, the read fails, or the content is
\* malformed, construction completes and Session State is left without a
\* loaded session.
C20_LoadNeverRaises ==
    \A t \in Tasks :
       /\ Constructed(t)
       /\ \/ ~task[t].opts.saveToken
          \/ file.kind \in {"absent", "unreadable", "malformed"}
       => /\ task[t].result = "ok" /\ task[t].err = "none"
          /\ Unloaded(task[t].opts)

\* C20 witness: a client constructed with persistence off over a record that
\* would load, and one constructed with persistence on over malformed content
C20_Witness ==
    \E t \in Tasks : /\ Constructed(t) /\ task[t].result = "ok"
                     /\ authState.refreshToken = Null
                     /\ \/ ~saveToken /\ file.kind = "record" /\ file.refreshToken = "R9"
                        \/ saveToken /\ file.kind = "malformed"

\* the record at saveTokenPath has a refresh token and an access token that
\* has expired
ExpiredRecord ==
    /\ file.kind = "record" /\ file.refreshToken \notin {Null, Empty}
    /\ \E e \in file.tokenExpireIn : e <= now

\* C21: after a process restart with persistence enabled and a persisted
\* record whose access token has expired, the first authenticated call of the
\* new client performs exactly one refresh exchange using the record's refresh
\* token and then sends the requested call with the newly obtained access
\* token, without any explicit auth() by the caller.
C21_FirstCallStep(t) ==
    /\ Constructed(t) /\ task[t].opts.saveToken /\ ExpiredRecord
    /\ Called(t) /\ task'[t].op \in PipelineOps /\ autoRefreshToken
    => /\ task'[t].after = "new"
       /\ RefreshPending(task'[t])
       /\ task'[t].log = <<"auth/token">>
       /\ task'[t].sentRefresh = file.refreshToken

C21_FirstCallSent(t) ==
    /\ task[t].after = "new" /\ task[t].exch = "refresh"
    /\ PrimaryEndpoint(task[t].op) \in Fetched(task[t])
    => /\ task[t].log = <<"auth/token", PrimaryEndpoint(task[t].op)>>
       /\ task[t].bearer = task[t].reply.token
       /\ task[t].bearer \notin {Null, Empty}

C21_RestartRefreshesFromRecord ==
    /\ [][\A t \in Tasks : C21_FirstCallStep(t)]_vars
    /\ [](\A t \in Tasks : C21_FirstCallSent(t))

\* C21 witness: the first call of a client that loaded an expired record is
\* out, after one refresh with the record's refresh token, with the new token
C21_Witness ==
    \E t \in Tasks : /\ task[t].op = "getUserInfo" /\ task[t].after = "new"
                     /\ task[t].held = Null /\ task[t].sentRefresh = "R9"
                     /\ task[t].pc = "awaitPrimary"
                     /\ task[t].log = <<"auth/token", "user">>
                     /\ task[t].bearer = task[t].reply.token
                     /\ task[t].bearer \in AccessTokens

\* C22: clearSavedTokens removes the persisted record when it is present, does
\* nothing when it is absent, and never raises even when the removal fails; it
\* does so regardless of whether persistence is enabled on the client.
C22_ClearStep(t) ==
    LET tk == task'[t]
    IN /\ tk.pc = "done" /\ tk.result = "ok" /\ tk.err = "none"
       /\ tk.log = <<>>
       /\ authState' = authState /\ deviceId' = deviceId
       /\ file.kind = "absent" => tk.store = "missing" /\ file' = file
       /\ file.kind # "absent" =>
             \/ tk.store = "removed" /\ file'.kind = "absent"
             \/ tk.store = "unlinkFailed" /\ file' = file

C22_ClearSavedTokensNeverRaises ==
    [][\A t \in Tasks :
          Called(t) /\ task'[t].op = "clearSavedTokens" => C22_ClearStep(t)]_vars

\* C22 witness: clearSavedTokens has removed the file on a client constructed
\* without persistence
C22_Witness ==
    \E t \in Tasks : /\ task[t].op = "clearSavedTokens" /\ task[t].result = "ok"
                     /\ task[t].store = "removed"
                     /\ ~saveToken /\ file.kind = "absent"

\* C23: installing a token triple with setTokens(accessToken, refreshToken,
\* inn) and then reading getAuthState returns exactly the installed access
\* token, refresh token and subject identifier, from any prior Session State.
C23_SetTokensStep(t) ==
    LET a == task'[t].args
        read == getAuthState(authState')
    IN /\ Called(t) /\ task'[t].op = "setTokens"
       /\ a[2] \notin {Null, Empty} /\ a[3] \notin {Null, Empty}
       => /\ read.accessToken = a[1]
          /\ read.refreshToken = a[2]
          /\ read.inn = a[3]

C23_SetTokensRoundTrip ==
    [][\A t \in Tasks : C23_SetTokensStep(t)]_vars

\* C23 witness: a triple installed over a session that an exchange had filled
C23_Witness ==
    \E t \in Tasks : /\ task[t].op = "setTokens" /\ task[t].args = <<"T0", "R0", "I1">>
                     /\ task[t].held \in AccessTokens
                     /\ getAuthState(authState).accessToken = "T0"
                     /\ getAuthState(authState).refreshToken = "R0"
                     /\ getAuthState(authState).inn = "I1"
                     /\ authState.tokenExpireIn # NoDate

\* C24: persist/restore round trip: a record written by a successful exchange
\* and then loaded by a new client constructed with persistence on the same
\* location (and no token, inn or deviceId options) yields the same refresh
\* token, subject identifier and device id, and the same access token if and
\* only if the saved expiry is still in the future at load time.
C24_RestartStep(t) ==
    LET o == task'[1].opts
    IN \* the old client has just saved the session of a successful exchange
       /\ task[t].op \in ExchangeOps /\ task[t].result = "ok"
       /\ task[t].reply # NoReply
       /\ saveToken /\ ~SaveFailureLogged(task[t])
       \* and this step constructs the new client
       /\ task'[1].op = "new" /\ o.saveToken
       /\ o.accessToken = Null /\ o.refreshToken = Null
       /\ o.inn = Null /\ o.deviceId = Null
       => /\ authState'.refreshToken = authState.refreshToken
          /\ authState'.inn = authState.inn
          /\ deviceId' = deviceId
          /\ authState'.tokenExpireIn = authState.tokenExpireIn
          /\ authState'.accessToken =
                IF \E e \in authState.tokenExpireIn : e > now
                THEN authState.accessToken ELSE Null

C24_PersistRestoreRoundTrip ==
    [][\A t \in Tasks : C24_RestartStep(t)]_vars

\* C24 witness: a new client over a record that an exchange of a client with a
\* generated device id wrote, and whose access token has expired since: the
\* refresh token and the device id are back, the access token is not
C24_Witness ==
    \E t \in Tasks : /\ Constructed(t) /\ saveToken /\ task[t].opts.inn = Null
                     /\ file.kind = "record" /\ file.accessToken \in AccessTokens
                     /\ file.deviceId \in GeneratedDeviceIds
                     /\ \E e \in file.tokenExpireIn : e <= now
                     /\ authState.refreshToken = file.refreshToken
                     /\ authState.inn = file.inn /\ deviceId = file.deviceId
                     /\ authState.accessToken = Null

\* the primary call of slot t has failed with a non-success response
Rejected(t) ==
    /\ task[t].op \in PipelineOps /\ task[t].result = "error"
    /\ task[t].err = "http" /\ task[t].errFrom = PrimaryEndpoint(task[t].op)

\* the decoded body is the payload: the object with its fields, the raw text
PayloadIs(e, b) ==
    CASE b.form = "json" -> /\ e.response.type = "object"
                            /\ e.response.message = b.message
                            /\ e.response.code = b.code
      [] b.form = "text" -> e.response.type = "string" /\ e.response.value = b.text
      [] b.form = "empty" -> e.response.type = "null"

\* C25 as stated: for every non-success response of a pipeline call, the
\* raised NalogApiError has message equal to the body's message field when
\* present and otherwise "HTTP Error: <status>", code equal to the body's code
\* field or absent, and payload equal to the decoded body; for a plain-text
\* non-JSON body the message is "HTTP Error: <status>" and the payload is the
\* raw text.
C25_ErrorShapeAsStated ==
    \A t \in Tasks :
       Rejected(t) =>
          LET e == task[t].error
              b == task[t].body
          IN /\ e.message = IF b.form = "json" /\ b.message # Null
                             THEN <<b.message>>
                             ELSE <<"HTTP Error: ", task[t].status>>
             /\ e.code = b.code
             /\ PayloadIs(e, b)

\* C25 amended: the message is the body's message field when that is present
\* and not empty, and otherwise "HTTP Error: <status>"; the rest as stated.
C25_ErrorShape ==
    \A t \in Tasks :
       Rejected(t) =>
          LET e == task[t].error
              b == task[t].body
          IN /\ e.message = IF b.form = "json" /\ b.message \notin {Null, Empty}
                             THEN <<b.message>>
                             ELSE <<"HTTP Error: ", task[t].status>>
             /\ e.code = b.code
             /\ PayloadIs(e, b)

\* C25 witness: a call rejected with a JSON body that has a code and no
\* message
C25_Witness ==
    \E t \in Tasks : /\ Rejected(t)
                     /\ task[t].body = JsonBody(Null, "AUTH_ERROR")
                     /\ task[t].status = "500"
                     /\ task[t].error.message = <<"HTTP Error: ", "500">>
                     /\ task[t].error.code = "AUTH_ERROR"

\* C26: a pipeline call whose response has a success status and an empty body
\* resolves to a null result without raising any error.
C26_EmptyBodyResolvesToNull ==
    \A t \in Tasks :
       /\ task[t].op \in PipelineOps
       /\ task[t].status = "200" /\ task[t].body = NoBody
       => \* request() returned null and built no error
          /\ task[t].resolved = "null"
          /\ task[t].error = NoError /\ task[t].err # "http"
          \* the methods that return what request() returns: call,
          \* cancelIncome and getReceiptJson
          /\ task[t].op \in {"call", "getReceiptJson"} =>
                task[t].pc = "done" /\ task[t].result = "ok" /\ task[t].err = "none"

\* C26 witness: call() has resolved to null on a success response without a
\* body
C26_Witness ==
    \E t \in Tasks : /\ task[t].op = "call" /\ task[t].result = "ok"
                     /\ task[t].status = "200" /\ task[t].body = NoBody
                     /\ task[t].resolved = "null"

\* task t is waiting for the reply to a refresh exchange
Refreshing(t) == task[t].pc = "awaitExchange" /\ task[t].exch = "refresh"

\* task u has had its refresh exchange answered with a new pair
Refreshed(u) == task[u].exch = "refresh" /\ task[u].reply.token # Null

\* C27: two authenticated calls issued concurrently while the access token is
\* stale each issue their own refresh exchange, and once both refreshes have
\* completed Session State holds the pair the second one returned.
C27_SecondRefreshOverwrites ==
    [][\A t \in Tasks :
          \* no single-flight guard: a call made while another call's refresh
          \* is in flight sends a refresh of its own
          /\ (/\ ~InFlight(t) /\ task'[t].op \in PipelineOps /\ task'[t].result = "pending"
              /\ ensureValidToken(authState, now) = "refresh"
              /\ Truthy(authState.refreshToken)
              /\ \E u \in Tasks \ {t} : Refreshing(u))
             => /\ task'[t].pc = "awaitExchange" /\ task'[t].exch = "refresh"
                /\ task'[t].sentRefresh = authState.refreshToken
          \* the refresh that completes second installs its own pair
          /\ (/\ Refreshing(t) /\ task'[t].reply.token # Null
              /\ \E u \in Tasks \ {t} :
                    Refreshed(u) /\ task[u].sentRefresh = task[t].sentRefresh)
             => /\ authState'.accessToken = task'[t].reply.token
                /\ authState'.refreshToken = task'[t].reply.refreshToken
                /\ authState'.tokenExpireIn = task'[t].reply.tokenExpireIn
                /\ authState'.refreshToken = RefreshOf(authState'.accessToken)]_vars

\* C27 witness: two calls began on the same stale token and sent the same
\* refresh token; both refreshes were answered, with different pairs, the
\* first of them fresh, and Session State holds the pair of the later one
C27_Witness ==
    \E t, u \in Tasks :
       /\ t # u /\ Refreshed(t) /\ Refreshed(u)
       /\ task[t].ensure = "refresh" /\ task[u].ensure = "refresh"
       /\ task[t].held = task[u].held
       /\ task[t].sentRefresh = task[u].sentRefresh
       /\ task[u].reply.token # task[u].held
       /\ task[u].reply.token # task[t].reply.token
       /\ \E e \in task[u].reply.tokenExpireIn : now < e - RefreshWindow
       /\ authState.accessToken = task[t].reply.token
       /\ authState.refreshToken = task[t].reply.refreshToken

\* the request() of task t has reached its fetch
SentPrimary(t) ==
    \/ task[t].pc = "awaitPrimary"
    \/ task[t].pc = "done" /\ task[t].errFrom # "local"

\* C28: with the auto-refresh flag off an authenticated pipeline call never
\* invokes auth() or refreshAccessToken(): it makes exactly one network
\* exchange, leaves Session State and the persisted record unchanged, and
\* carries the bearer header only if an access token is held.
C28_AutoRefreshOff ==
    /\ [](~autoRefreshToken =>
            \A t \in Tasks :
               task[t].op \in PipelineOps =>
                  /\ task[t].ensure \in {"off", "n/a"} /\ task[t].exch = "none"
                  /\ task[t].pc \notin {"awaitExchange", "resume"}
                  /\ SentPrimary(t) =>
                        /\ task[t].log = <<PrimaryEndpoint(task[t].op)>>
                        /\ task[t].bearer =
                              (IF Truthy(task[t].held) THEN task[t].held ELSE Null))
    /\ [][~autoRefreshToken =>
            \A t \in Tasks :
               (task'[t].op \in PipelineOps /\ task'[t] # task[t]) =>
                  /\ file' = file
                  \* request() assigns nothing; getUserInfo itself stores the
                  \* inn of the body request() returned
                  /\ IF task'[t].op = "getUserInfo" /\ task'[t].result = "ok"
                     THEN [authState' EXCEPT !.inn = authState.inn] = authState
                     ELSE authState' = authState]_vars

\* C28 witness: with auto-refresh off, persistence on and a record saved, a
\* call went out without a bearer and settled, and another went out on a
\* stale token
C28_Witness ==
    /\ ~autoRefreshToken /\ saveToken /\ file.kind = "record"
    /\ \E t \in Tasks :
          /\ task[t].op = "call" /\ task[t].pc = "done" /\ task[t].ensure = "off"
          /\ task[t].log = <<PrimaryEndpoint("call")>>
          /\ \/ task[t].bearer = Null /\ ~Truthy(authState.accessToken)
                /\ Truthy(authState.refreshToken)
             \/ task[t].bearer # Null /\ ensureValidToken(authState, now) = "refresh"

\* the held subject identifier is the one the service issues tokens for, or
\* is unset
SubjectKept(st) == st.inn \in {Null, Subject}

\* this step is the call of method op
Calling(op) == \E t \in Tasks : task'[t].op = op /\ task'[t] # task[t]

ExchangeSucceeds(t) ==
    /\ task[t].pc = "awaitExchange" /\ task[t].exch \in {"lkfl", "verify", "refresh"}
    /\ task'[t].pc \in {"resume", "done"} /\ task'[t].result # "error"
    /\ task'[t].reply.token # Null

\* this step is getUserInfo receiving a body from request()
UserInfoReturns(t) ==
    /\ task[t].op = "getUserInfo" /\ task[t].pc = "awaitPrimary"
    /\ task'[t].pc = "done" /\ task'[t].result = "ok"

\* C30 as stated: after construction Session State changes only as the effect
\* of a successful credential exchange or of setTokens or setInn; every other
\* public operation, getUserInfo among them, leaves all four fields unchanged
\* apart from the token maintenance it triggers.
C30_OnlyExchangesAndOverrides ==
    [][authState' # authState =>
          \/ \E t \in Tasks : ExchangeSucceeds(t)
          \/ Calling("setTokens") \/ Calling("setInn")]_vars

\* C30 (amended): the same, except that getUserInfo stores the inn of the
\* body it received and changes no other field.
C30_FrameWithUserInfo ==
    [][authState' # authState =>
          \/ \E t \in Tasks : ExchangeSucceeds(t)
          \/ Calling("setTokens") \/ Calling("setInn")
          \/ \E t \in Tasks :
                /\ UserInfoReturns(t)
                /\ Truthy(authState'.inn)
                /\ authState' = [authState EXCEPT !.inn = authState'.inn]]_vars

\* C30 witness: clearSavedTokens, getInn, requestSmsCode and a failed call
\* have all left a filled Session State as it was: the session still holds
\* the pair of the record, and the last such call has just returned
C30_Witness ==
    /\ authState.accessToken = "T9" /\ authState.refreshToken = "R9"
    /\ authState.inn = "I9"
    /\ \E t \in Tasks :
          \/ task[t].op = "clearSavedTokens" /\ task[t].store = "removed"
          \/ task[t].op = "getInn" /\ task[t].value = "I9"
          \/ task[t].op = "getAuthState" /\ task[t].reply.token = "T9"
          \/ task[t].op = "call" /\ task[t].err = "http"

\* C31: the device identifier of a client instance is fixed once construction
\* completes: no public operation changes it, and every credential exchange
\* of the instance sends the same device identifier.
C31_DeviceIdFixed ==
    /\ [][deviceId' = deviceId]_vars
    /\ [](\A t \in Tasks :
            task[t].exch \in {"lkfl", "verify", "refresh"} => task[t].device = deviceId)

\* C31 witness: a client that took its device id from the record has made a
\* refresh exchange with it and saved it again
C31_Witness ==
    /\ deviceId = "D9" /\ saveToken /\ file.deviceId = "D9"
    /\ \E t \in Tasks : /\ task[t].exch = "refresh" /\ task[t].reply.token # Null
                         /\ task[t].device = "D9"
                         /\ file.accessToken = task[t].reply.token

\* this step is a setTokens call that passes no refresh token
SetTokensWithoutRefresh ==
    \E t \in Tasks : /\ task'[t].op = "setTokens" /\ task'[t] # task[t]
                     /\ ~Truthy(task'[t].args[2])

\* C32 as stated: Session State can be cleared on demand: from a state in
\* which a refresh token is held a public operation, clearSavedTokens or a
\* setTokens that passes no refresh token, leads to a state in which it is
\* forgotten and auth() no longer takes the refresh path.
C32_ClearedOnDemand ==
    [][(Truthy(authState.refreshToken)
        /\ (Calling("clearSavedTokens") \/ SetTokensWithoutRefresh))
       => (~Truthy(authState'.refreshToken)
           /\ auth(authState', authParams) # "refresh")]_vars

\* C32 (amended): no public operation forgets a held refresh token: it is
\* only replaced by the refresh token of a later exchange response;
\* clearSavedTokens removes the persisted record alone and setTokens keeps the
\* held refresh token when it is passed none, so auth() keeps taking the
\* refresh path.
C32_RefreshTokenNeverForgotten ==
    [][Truthy(authState.refreshToken)
       => /\ Truthy(authState'.refreshToken)
          /\ auth(authState', authParams) = "refresh"
          /\ Calling("clearSavedTokens") => authState' = authState
          /\ SetTokensWithoutRefresh => authState'.refreshToken = authState.refreshToken
          /\ authState'.refreshToken # authState.refreshToken
                => \/ \E t \in Tasks : ExchangeSucceeds(t)
                   \/ Calling("setTokens")]_vars

\* C32 witness: clearSavedTokens has removed the record of a client that
\* still holds its refresh token
C32_Witness ==
    /\ Truthy(authState.refreshToken) /\ file = AbsentFile
    /\ auth(authState, authParams) = "refresh"
    /\ \E t \in Tasks : task[t].op = "clearSavedTokens" /\ task[t].store = "removed"

\* C33: the freshness threshold is exactly 5 minutes with the boundary counted
\* as stale: with t the time left until expiry at the moment of an
\* authenticated call, a refresh exchange is issued if and only if t <= 5
\* minutes (t <= 0 included), and no exchange is issued when t > 5 minutes.
C33_ThresholdStep(t) ==
    \A e \in authState.tokenExpireIn :
       LET left == e - now
           refreshIssued == /\ task'[t].pc = "awaitExchange" /\ task'[t].exch = "refresh"
                            /\ task'[t].log = <<"auth/token">>
       IN /\ refreshIssued <=> left <= 5
          /\ left > 5 => task'[t].log = <<>> /\ task'[t].pc = "resume"

C33_FiveMinuteThreshold ==
    [][\A t \in Tasks :
          (CalledEnsure(t) /\ HoldsAccessToken) => C33_ThresholdStep(t)]_vars

\* C33 witness: a call made with exactly five minutes left has sent a refresh
C33_Witness ==
    \E t \in Tasks :
       /\ task[t].op \in PipelineOps /\ task[t].ensure = "refresh"
       /\ task[t].pc = "awaitExchange" /\ task[t].log = <<"auth/token">>
       /\ HoldsAccessToken /\ task[t].held = authState.accessToken
       /\ \E e \in authState.tokenExpireIn : e - now = 5

\* C34: on a client whose exchange responses carry a non-empty refresh token,
\* a known expiry implies a held refresh token in every reachable state, so
\* the refresh started by ensureValidToken never fails with the local
\* 'refresh token missing' error.
C34_ExpiryImpliesRefreshToken ==
    /\ authState.tokenExpireIn # NoDate => Truthy(authState.refreshToken)
    /\ \A t \in Tasks : task[t].ensure = "refresh" => task[t].err # "norefresh"

\* C34 witness: setTokens has put a token over a session restored from an
\* expired record, and the call that followed has sent its refresh
C34_Witness ==
    /\ authState.accessToken = "T0" /\ authState.tokenExpireIn # NoDate
    /\ \E t \in Tasks : /\ task[t].ensure = "refresh" /\ task[t].pc = "awaitExchange"
                         /\ task[t].sentRefresh = authState.refreshToken

\* an access token is held and its expiry is not known
HeldWithoutExpiry == HoldsAccessToken /\ authState.tokenExpireIn = NoDate

\* C35: an access token held with no known expiry is treated as fresh for
\* ever: with auto-refresh on every authenticated call is sent with that
\* token and no maintenance exchange is issued, however much time passes.
C35_NoExpiryIsFreshForever ==
    [][\A t \in Tasks :
          /\ (CalledEnsure(t) /\ HeldWithoutExpiry)
                => /\ task'[t].ensure = "none" /\ task'[t].pc = "resume"
                   /\ task'[t].log = <<>>
          /\ (task[t].pc = "resume" /\ task'[t].pc # "resume" /\ HeldWithoutExpiry)
                => /\ task'[t].pc = "awaitPrimary"
                   /\ task'[t].bearer = authState.accessToken
                   /\ task'[t].log = <<PrimaryEndpoint(task'[t].op)>>
          /\ HeldWithoutExpiry /\ now' # now
                => authState' = authState]_vars

\* C35 witness: time has passed since construction and a call is out with the
\* token of the accessToken option, nothing else fetched
C35_Witness ==
    /\ now > 0 /\ authState.accessToken = "T0" /\ authState.tokenExpireIn = NoDate
    /\ \E t \in Tasks : /\ task[t].pc = "awaitPrimary" /\ task[t].bearer = "T0"
                         /\ task[t].ensure = "none"
                         /\ task[t].log = <<PrimaryEndpoint(task[t].op)>>

\* C36: setTokens changes only the access token and those of refresh token
\* and subject identifier that are passed non-empty: an omitted refresh token
\* or inn keeps its previous value and the stored expiry is never changed, so
\* the expiry of the token held before governs when the installed access
\* token is refreshed.
C36_SetTokensStep(t) ==
    LET a == task'[t].args
    IN /\ authState'.accessToken = a[1]
       /\ authState'.refreshToken =
             (IF Truthy(a[2]) THEN a[2] ELSE authState.refreshToken)
       /\ authState'.inn = (IF Truthy(a[3]) THEN a[3] ELSE authState.inn)
       /\ authState'.tokenExpireIn = authState.tokenExpireIn
       /\ UNCHANGED <<authParams, deviceId, autoRefreshToken, saveToken, file, now>>
       \* what ensureValidToken will make of the installed token
       /\ ensureValidToken(authState', now) =
             (IF LeftAtMost(5) THEN "refresh" ELSE "none")

C36_SetTokensFrame ==
    [][\A t \in Tasks :
          (task'[t].op = "setTokens" /\ task'[t] # task[t]) => C36_SetTokensStep(t)]_vars

\* C36 witness: setTokens without a refresh token over a session whose token
\* was inside the refresh window: pair and expiry of that session are kept
C36_Witness ==
    /\ authState.accessToken = "T0" /\ authState.refreshToken \in {"R1", "R2"}
    /\ LeftAtMost(5)
    /\ \E t \in Tasks : /\ task[t].op = "setTokens" /\ task[t].args[2] = Null
                         /\ task[t].held \in AccessTokens

\* the record at saveTokenPath is one loadTokensFromFile accepts
Loadable(f) == f.kind = "record" /\ Truthy(f.refreshToken)

\* its access token has not expired
Unexpired(f) == \E e \in f.tokenExpireIn : e > now

\* C37: at construction with persistence enabled and a loadable record, the
\* record's refresh token, its subject identifier (when non-null) and its
\* unexpired access token take precedence over the refreshToken, inn and
\* accessToken options; the accessToken option is installed only when the
\* record supplies no unexpired access token; an explicit deviceId option
\* takes precedence over the record's deviceId.
C37_RecordBeforeOptions ==
    \A t \in Tasks :
       (Constructed(t) /\ task[t].opts.saveToken /\ Loadable(file)) =>
          LET o == task[t].opts
          IN /\ authState.refreshToken = file.refreshToken
             /\ file.inn # Null => authState.inn = file.inn
             /\ file.inn = Null => authState.inn = o.inn
             /\ Unexpired(file) => authState.accessToken = file.accessToken
             /\ ~Unexpired(file) => authState.accessToken = o.accessToken
             /\ o.deviceId # Null => deviceId = o.deviceId
             /\ o.deviceId = Null => deviceId = file.deviceId

\* C37 witness: a client constructed with all four options over an unexpired
\* record holds the record's tokens and inn and the option's device id
C37_Witness ==
    \E t \in Tasks :
       /\ Constructed(t) /\ task[t].opts.saveToken /\ Loadable(file) /\ Unexpired(file)
       /\ task[t].opts.accessToken = "T0" /\ task[t].opts.refreshToken = "R0"
       /\ task[t].opts.inn = "I1" /\ task[t].opts.deviceId = "D1"
       /\ authState.accessToken = "T9" /\ authState.refreshToken = "R9"
       /\ authState.inn = "I9" /\ deviceId = "D1"

\* C38: addIncome and addMultipleIncome called while no subject identifier is
\* known raise the 'inn not defined' error only after the income request has
\* been sent and answered successfully; the missing identifier is not
\* detected before the network exchange.
C38_InnCheckedAfterIncome ==
    /\ [](\A t \in Tasks :
            task[t].err = "innNotDefined" =>
               /\ task[t].op = "addIncome" /\ task[t].pc = "done"
               /\ task[t].log # <<>> /\ task[t].log[Len(task[t].log)] = PrimaryEndpoint("addIncome")
               /\ task[t].status = "200" /\ task[t].resolved = "object")
    /\ [][\A t \in Tasks :
            \* the call itself does not look at the inn
            /\ (Called(t) /\ task'[t].op = "addIncome" /\ ~Truthy(authState.inn))
                  => task'[t].err \notin {"innNotDefined", "innNotSet"}
            \* the answer is in and only then the inn is missed
            /\ (/\ task[t].op = "addIncome" /\ task[t].pc = "awaitPrimary"
                /\ task'[t].resolved = "object" /\ ~Truthy(authState.inn))
                  => task'[t].pc = "done" /\ task'[t].err = "innNotDefined"]_vars

\* C38 witness: addIncome on a client with a token and no inn has failed after
\* its request was answered with a receipt
C38_Witness ==
    /\ ~Truthy(authState.inn) /\ HoldsAccessToken
    /\ \E t \in Tasks : /\ task[t].op = "addIncome" /\ task[t].err = "innNotDefined"
                         /\ task[t].status = "200" /\ task[t].resolved = "object"
                         /\ task[t].bearer = authState.accessToken

\* a refresh token is held and the access token is absent or stale
NeedsRefresh == HoldsRefreshToken /\ (~HoldsAccessToken \/ LeftAtMost(5))

\* this step is the service rejecting the refresh exchange of task t
RefreshRejected(t) ==
    /\ Refreshing(t) /\ task'[t].pc = "done" /\ task'[t].err = "http"

\* C39: once a refresh token is held and the service keeps rejecting it, every
\* auth() call and every auto-refreshing authenticated call made with an
\* absent or stale access token fails at the refresh step, however often it
\* is repeated and even when inn and password are configured; the client
\* leaves this condition only through an explicit authByInn, authByPhone or
\* setTokens call.
C39_RejectedRefreshSticks ==
    [][/\ \A t \in Tasks :
             \* the call goes to the refresh step, whatever is configured
             /\ (NeedsRefresh /\ (CalledAuth(t) \/ CalledEnsure(t)))
                   => /\ task'[t].pc = "awaitExchange" /\ task'[t].exch = "refresh"
                      /\ task'[t].sentRefresh = authState.refreshToken
                      /\ task'[t].log = <<"auth/token">>
             \* and fails there, leaving the client as it was
             /\ RefreshRejected(t)
                   => /\ task'[t].result = "error" /\ task'[t].errFrom = "auth/token"
                      /\ task'[t].log = <<"auth/token">>
                      /\ authState' = authState /\ file' = file
       \* the ways out
       /\ (NeedsRefresh /\ ~(NeedsRefresh' /\ authState'.refreshToken = authState.refreshToken))
             => \/ \E t \in Tasks : ExchangeSucceeds(t) /\ task[t].exch = "refresh"
                \/ \E t \in Tasks : /\ ExchangeSucceeds(t)
                                     /\ task[t].op \in {"authByInn", "authByPhone"}
                \/ Calling("setTokens")]_vars

\* C39 witness: on a client with inn and password configured, a call repeated
\* after a rejected refresh has been rejected at the refresh step again
C39_Witness ==
    /\ NeedsRefresh /\ PasswordConfigured
    /\ \E t \in Tasks : /\ task[t].op \in PipelineOps \cup {"auth"}
                         /\ task[t].after = "exchange"
                         /\ task[t].exch = "refresh" /\ task[t].err = "http"
                         /\ task[t].log = <<"auth/token">>

\* the access token, refresh token and expiry of a Session State
Triple(st) == <<st.accessToken, st.refreshToken, st.tokenExpireIn>>

\* the same three of the response task tk received
TripleOf(tk) == <<tk.reply.token, tk.reply.refreshToken, tk.reply.tokenExpireIn>>

\* C40: under any interleaving of concurrently running exchanges on one
\* client and with no setTokens call, the access token, refresh token and
\* expiry held at every observable point come from one and the same exchange
\* response, never a mix of two, and they are those of the response processed
\* last.
C40_TripleFromLastResponse ==
    [][/\ \A t \in Tasks :
             ExchangeSucceeds(t) => Triple(authState') = TripleOf(task'[t])
       /\ Triple(authState') # Triple(authState)
             => \E t \in Tasks : ExchangeSucceeds(t)]_vars

\* C40 witness: a password login and a refresh that were in flight together
\* have both been answered, with different pairs, and Session State holds the
\* three values of one of them
C40_Witness ==
    \E t, u \in Tasks :
       /\ task[t].exch = "lkfl" /\ task[u].exch = "refresh"
       /\ task[t].pc = "done" /\ task[u].pc = "done"
       /\ task[t].held = task[u].held
       /\ task[t].reply.token # Null /\ task[u].reply.token # Null
       /\ task[t].reply.token # task[u].reply.token
       /\ TripleOf(task[t]) # TripleOf(task[u])
       /\ Triple(authState) = TripleOf(task[u])

====
